---------------------------- MODULE Spec2Model ----------------------------
(***************************************************************************)
(* A model of commit-canvas-cli (mod.ts and the modules it imports).       *)
(*                                                                         *)
(* A run checks that git is available, prepares the repository (init,      *)
(* cleanse, first commit or reset), resolves the positional arguments to   *)
(* dates, saves the current commit hash, creates one commit per date and   *)
(* hard-resets to the saved hash when creating the commits throws.         *)
(*                                                                         *)
(* Time.  A Date is the number of minutes since 1970-01-01T00:00Z.  The    *)
(* local time zone is a fixed offset: tz is Date.getTimezoneOffset(), the  *)
(* minutes to add to local time to get UTC.                                *)
(*                                                                         *)
(* External processes.  runCommand resolves with the exit code of the      *)
(* process, whatever it is, and rejects only when the process cannot be    *)
(* started.  Each call therefore has one of three outcomes: "ok" (exit     *)
(* code 0), "fail" (another exit code) and "throw" (rejected).             *)
(***************************************************************************)
EXTENDS Integers, Sequences, FiniteSets, TLC

\* ------------------------------------------------------------------ bounds
\* Longest list of positional arguments (config._).
MaxTokens == 3
\* Longest list of positional arguments when the dates are prepared on
\* their own.
MaxProbeTokens == 4
\* Longest duration given to formatMilliseconds, in seconds.
MaxProbeSeconds == 3660
\* Most dates resolved in a run followed process by process.
MaxProbeDates == 3
\* Most options on the command line when config.ts is evaluated on its own.
MaxArgs == 2
\* Most commits in the repository when the run starts.
MaxInitialCommits == 1
\* The calendar year in which the run takes place.
CurrentYear == 2024

\* ------------------------------------------------------- program constants
\* processDates: 'Date cannot be before 1970.'
MinYear == 1970
\* futureNow: setFullYear(getFullYear() + 74)
FutureYears == 74

\* -------------------------------------------------------------- calendar
\* Days from 1970-01-01 to the civil date y-m-d (proleptic Gregorian), as
\* the Date constructor computes them.
DaysFromCivil(y, m, d) ==
    LET yy  == IF m <= 2 THEN y - 1 ELSE y
        era == yy \div 400
        yoe == yy - era * 400
        mp  == (m + 9) % 12
        doy == (153 * mp + 2) \div 5 + d - 1
        doe == yoe * 365 + yoe \div 4 - yoe \div 100 + doy
    IN  era * 146097 + doe - 719468

\* The civil date of day number z: the inverse of DaysFromCivil.
CivilFromDays(z) ==
    LET zz  == z + 719468
        era == zz \div 146097
        doe == zz - era * 146097
        yoe == (doe - doe \div 1460 + doe \div 36524 - doe \div 146096) \div 365
        doy == doe - (365 * yoe + yoe \div 4 - yoe \div 100)
        mp  == (5 * doy + 2) \div 153
        d   == doy - (153 * mp + 2) \div 5 + 1
        m   == IF mp < 10 THEN mp + 3 ELSE mp - 9
        y   == yoe + era * 400 + (IF m <= 2 THEN 1 ELSE 0)
    IN  [year |-> y, month |-> m, day |-> d]

IsLeapYear(y) == (y % 4 = 0 /\ y % 100 # 0) \/ y % 400 = 0

DaysInMonth(y, m) ==
    CASE m \in {1, 3, 5, 7, 8, 10, 12} -> 31
      [] m \in {4, 6, 9, 11} -> 30
      [] OTHER -> IF IsLeapYear(y) THEN 29 ELSE 28

\* The value of an invalid Date (getTime() is NaN).
InvalidDate == [valid |-> FALSE, time |-> 0]
ValidDate(t) == [valid |-> TRUE, time |-> t]

\* date.getFullYear(): the year of the local calendar date.
getFullYear(date, tz) == CivilFromDays((date - tz) \div 1440).year

\* date-fns addMinutes, addHours and addDays (calendar days of a zone with a
\* fixed offset).
addMinutes(date, n) == date + n
addHours(date, n) == date + 60 * n
addDays(date, n) == date + 1440 * n

\* ------------------------------------------------------------ characters
Digits == {"0", "1", "2", "3", "4", "5", "6", "7", "8", "9"}

DigitValue(c) ==
    CASE c = "0" -> 0 [] c = "1" -> 1 [] c = "2" -> 2 [] c = "3" -> 3
      [] c = "4" -> 4 [] c = "5" -> 5 [] c = "6" -> 6 [] c = "7" -> 7
      [] c = "8" -> 8 [] c = "9" -> 9

\* /^\d+$/ on a string given as the sequence of its characters.
IsNumberString(s) == Len(s) >= 1 /\ \A i \in 1..Len(s) : s[i] \in Digits

\* /^\d{4}-\d{2}-\d{2}$/
IsDateString(s) ==
    /\ Len(s) = 10
    /\ \A i \in {1, 2, 3, 4, 6, 7, 9, 10} : s[i] \in Digits
    /\ s[5] = "-" /\ s[8] = "-"

\* parseInt(item, 10) of a string of decimal digits.
RECURSIVE parseInt(_)
parseInt(s) ==
    IF s = <<>> THEN 0
    ELSE 10 * parseInt(SubSeq(s, 1, Len(s) - 1)) + DigitValue(s[Len(s)])

\* parse(dateStr, 'yyyy-MM-dd', new Date()): local midnight of the date, or
\* an invalid Date when the year, the month or the day is out of range.
parseDate(dateStr, tz) ==
    LET y == parseInt(SubSeq(dateStr, 1, 4))
        m == parseInt(SubSeq(dateStr, 6, 7))
        d == parseInt(SubSeq(dateStr, 9, 10))
    IN  IF y >= 1 /\ m \in 1..12 /\ d >= 1 /\ d <= DaysInMonth(y, m)
        THEN ValidDate(DaysFromCivil(y, m, d) * 1440 + tz)
        ELSE InvalidDate

\* formatISO(date): the local date and time with the zone's offset, e.g.
\* 1990-12-23T02:00:00+01:00.  offset is minutes east of UTC.
stringifyDate(date, tz) ==
    LET local == date - tz
        c     == CivilFromDays(local \div 1440)
        mins  == local % 1440
    IN  [year |-> c.year, month |-> c.month, day |-> c.day,
         hour |-> mins \div 60, minute |-> mins % 60, offset |-> 0 - tz]

\* The instant an ISO string denotes.
InstantOfISO(s) ==
    (DaysFromCivil(s.year, s.month, s.day) * 1440 + s.hour * 60 + s.minute)
        - s.offset

\* The author time git commit --date records for an ISO string of the
\* accepted years, in seconds, as an unsigned 64-bit number: the instant
\* from the epoch on, and an instant before the epoch (1970-01-01T00:00
\* to 00:59 at +01:00) wrapped, 2^64 + 60 * minute, which git log shows
\* as the epoch.  The number is wrapped * 2^64 + 60 * minute.
GitAuthorTime(s) ==
    LET m == InstantOfISO(s)
    IN  [wrapped |-> IF m < 0 THEN 1 ELSE 0, minute |-> m]

\* normalizeDate(date): one hour later, then shifted by the zone's offset.
normalizeDate(date, tz) == addMinutes(addHours(date, 1), 0 - tz)

\* ------------------------------------------------------ duration format
DigitChar(d) ==
    CASE d = 0 -> "0" [] d = 1 -> "1" [] d = 2 -> "2" [] d = 3 -> "3"
      [] d = 4 -> "4" [] d = 5 -> "5" [] d = 6 -> "6" [] d = 7 -> "7"
      [] d = 8 -> "8" [] d = 9 -> "9"

\* String(n) of an integer n >= 0: its decimal digits.
RECURSIVE String(_)
String(n) ==
    IF n < 10 THEN <<DigitChar(n)>>
    ELSE Append(String(n \div 10), DigitChar(n % 10))

\* s.padStart(targetLength, '0')
RECURSIVE padStart(_, _)
padStart(s, targetLength) ==
    IF Len(s) >= targetLength THEN s ELSE padStart(<<"0">> \o s, targetLength)

\* formatMilliseconds(ms): `${minutes}m ${seconds}s` of ms / 1000 rounded
\* down plus one second, the minutes being those within the hour.
formatMilliseconds(ms) ==
    LET totalSeconds == (ms \div 1000) + 1
        minutes      == (totalSeconds % 3600) \div 60
        seconds      == totalSeconds % 60
    IN  padStart(String(minutes), 2) \o <<"m", " ">>
            \o padStart(String(seconds), 2) \o <<"s">>


\* -------------------------------------------------------- date resolution
\* The errors thrown while the dates are prepared.
ErrInvalidDirection == "Invalid direction flag"
ErrRelativeFirst == "Relative date adjustment is used before any date has been provided"
ErrImpossibleOnlyDate == "PREVIOUS DATE (ONLY DATE) VARIABLE HAS NO VALUE"
ErrImpossibleFullTime == "PREVIOUS DATE (FULL TIME) VARIABLE HAS NO VALUE"
ErrInvalidFormat == "Invalid input format"
ErrInvalidTime == "Invalid time value"

\* A Date | null variable is <<>> (null) or <<d>>.
Null == <<>>

\* The closure's variables before the first item: previousDate,
\* previousDate_onlyDate, the dates pushed so far, and the error thrown.
ResolverInit ==
    [previousDate |-> Null, previousDate_onlyDate |-> Null,
     dates |-> <<>>, error |-> ""]

\* An end of the callback that keeps the normalized date in previousDate.
PushDate_normalizedState(st, thisDate, onlyDate, tz) ==
    IF thisDate.valid
    THEN [previousDate |-> <<ValidDate(normalizeDate(thisDate.time, tz))>>,
          previousDate_onlyDate |-> onlyDate,
          dates |-> Append(st.dates, normalizeDate(thisDate.time, tz)),
          error |-> ""]
    ELSE [previousDate |-> <<thisDate>>, previousDate_onlyDate |-> onlyDate,
          dates |-> st.dates, error |-> ErrInvalidTime]

\* The end of the forEach callback: previousDate = thisDate, then
\* dates.push(normalizeDate(thisDate)).  normalizeDate calls toISOString,
\* which throws a RangeError on an invalid Date.
PushDate(st, thisDate, onlyDate, tz) ==
    IF thisDate.valid
    THEN [previousDate |-> <<thisDate>>, previousDate_onlyDate |-> onlyDate,
          dates |-> Append(st.dates, normalizeDate(thisDate.time, tz)),
          error |-> ""]
    ELSE [previousDate |-> <<thisDate>>, previousDate_onlyDate |-> onlyDate,
          dates |-> st.dates, error |-> ErrInvalidTime]

Throw(st, err) == [st EXCEPT !.error = err]

\* A comparison that never finds two dates equal.
SameTime_never(x, y) == FALSE

\* x.getTime() === y?.getTime() for a Date x and a Date | null y: false when
\* y is null and when either time is NaN.
SameTime(x, y) ==
    /\ y # Null
    /\ x.valid /\ y[1].valid
    /\ x.time = y[1].time

\* A relative branch that counts from the epoch when no date came before.
ResolveRelative_defaultsToEpoch(st, item, dir, tz) ==
    LET daysToAdd == parseInt(item) * dir
        thisDate  == ValidDate(addDays(0, daysToAdd))
    IN  IF st.previousDate # Null
        THEN Throw(st, ErrImpossibleOnlyDate)
        ELSE PushDate(st, thisDate, <<thisDate>>, tz)

\* A relative branch that adds the days to previousDate.
ResolveRelative_fromPrevious(st, item, dir, tz) ==
    LET daysToAdd == parseInt(item) * dir IN
    IF st.previousDate # Null
    THEN IF daysToAdd = 0
         THEN PushDate(st, ValidDate(addMinutes(st.previousDate[1].time, 1)),
                       st.previousDate_onlyDate, tz)
         ELSE LET thisDate ==
                    ValidDate(addDays(st.previousDate[1].time, daysToAdd))
              IN  PushDate(st, thisDate, <<thisDate>>, tz)
    ELSE Throw(st, ErrRelativeFirst)

\* The relative branch: item is a string of digits.
ResolveRelative(st, item, dir, tz) ==
    LET daysToAdd == parseInt(item) * dir IN
    IF st.previousDate # Null
    THEN IF daysToAdd = 0
         THEN PushDate(st, ValidDate(addMinutes(st.previousDate[1].time, 1)),
                       st.previousDate_onlyDate, tz)
         ELSE IF st.previousDate_onlyDate = Null
              THEN Throw(st, ErrImpossibleOnlyDate)
              ELSE LET thisDate ==
                         ValidDate(addDays(st.previousDate_onlyDate[1].time, daysToAdd))
                   IN  PushDate(st, thisDate, <<thisDate>>, tz)
    ELSE Throw(st, ErrRelativeFirst)

\* An absolute branch that takes the date moved by a minute as the new
\* previousDate_onlyDate.
ResolveAbsolute_movesOnlyDate(st, item, tz) ==
    LET thisDate == parseDate(item, tz)
        moved    == ValidDate(addMinutes(thisDate.time, 1))
    IN  IF SameTime(thisDate, st.previousDate)
        THEN PushDate(st, moved, <<moved>>, tz)
        ELSE IF SameTime(thisDate, st.previousDate_onlyDate)
             THEN IF st.previousDate = Null
                  THEN Throw(st, ErrImpossibleFullTime)
                  ELSE PushDate(st, ValidDate(addMinutes(st.previousDate[1].time, 1)),
                                st.previousDate_onlyDate, tz)
             ELSE PushDate(st, thisDate, <<thisDate>>, tz)

\* The absolute branch: item has the shape YYYY-MM-DD.
ResolveAbsolute(st, item, tz) ==
    LET thisDate == parseDate(item, tz) IN
    IF SameTime(thisDate, st.previousDate)
    THEN PushDate(st, ValidDate(addMinutes(thisDate.time, 1)),
                  st.previousDate_onlyDate, tz)
    ELSE IF SameTime(thisDate, st.previousDate_onlyDate)
         THEN IF st.previousDate = Null
              THEN Throw(st, ErrImpossibleFullTime)
              ELSE PushDate(st, ValidDate(addMinutes(st.previousDate[1].time, 1)),
                            st.previousDate_onlyDate, tz)
         ELSE PushDate(st, thisDate, <<thisDate>>, tz)

\* A callback that passes over an item of unknown shape.
ResolveItem_skipsUnknown(st, item, dir, tz) ==
    IF IsNumberString(item) THEN ResolveRelative(st, item, dir, tz)
    ELSE IF IsDateString(item) THEN ResolveAbsolute(st, item, tz)
    ELSE st

\* One call of the forEach callback.
ResolveItem(st, item, dir, tz) ==
    IF IsNumberString(item) THEN ResolveRelative(st, item, dir, tz)
    ELSE IF IsDateString(item) THEN ResolveAbsolute(st, item, tz)
    ELSE Throw(st, ErrInvalidFormat)

\* A forEach that leaves out the last item.
RECURSIVE ResolveFrom_offByOne(_, _, _, _, _)
ResolveFrom_offByOne(st, items, i, dir, tz) ==
    IF i >= Len(items) \/ st.error # "" THEN st
    ELSE ResolveFrom_offByOne(ResolveItem(st, items[i], dir, tz), items, i + 1, dir, tz)

\* config._.forEach(...): the items in order, stopping at the first throw.
RECURSIVE ResolveFrom(_, _, _, _, _)
ResolveFrom(st, items, i, dir, tz) ==
    IF i > Len(items) \/ st.error # "" THEN st
    ELSE ResolveFrom(ResolveItem(st, items[i], dir, tz), items, i + 1, dir, tz)

\* config.direction && !/^[+-]$/.test(config.direction)
DirectionIsInvalid(direction) == direction # "" /\ direction \notin {"+", "-"}

\* A direction that is always forward.
DirOf_alwaysForward(direction) == 1

\* const dir = config.direction === '+' ? 1 : -1
DirOf(direction) == IF direction = "+" THEN 1 ELSE -1

\* The whole 'Preparing dates' closure.
PrepareDates(items, direction, tz) ==
    IF DirectionIsInvalid(direction) THEN Throw(ResolverInit, ErrInvalidDirection)
    ELSE ResolveFrom(ResolverInit, items, 1, DirOf(direction), tz)


\* ------------------------------------------------------- range validation
\* futureNow.getFullYear(): the year of new Date() plus 74.
futureNowYear == CurrentYear + FutureYears

\* A filter callback that compares the year with >= future.
DateProblem_futureExcluded(date, tz) ==
    LET year   == getFullYear(date, tz)
        future == futureNowYear - 1
    IN  IF year < MinYear THEN "Date cannot be before 1970."
        ELSE IF year >= future THEN "Date cannot be after future."
        ELSE ""

\* The body of the filter callback of processDates: "" when the date is
\* acceptable, else the message of the error thrown inside the try.
DateProblem(date, tz) ==
    LET year   == getFullYear(date, tz)
        future == futureNowYear - 1
    IN  IF year < MinYear THEN "Date cannot be before 1970."
        ELSE IF year > future THEN "Date cannot be after future."
        ELSE ""

IsAcceptable(date, tz) == DateProblem(date, tz) = ""

\* A filter that keeps every date.
FilterDates_keepsAll(ds, tz) == ds

\* dates.filter(...) under let-it-go: the acceptable dates, in order.
RECURSIVE FilterDates(_, _)
FilterDates(ds, tz) ==
    IF ds = <<>> THEN <<>>
    ELSE IF IsAcceptable(Head(ds), tz)
         THEN <<Head(ds)>> \o FilterDates(Tail(ds), tz)
         ELSE FilterDates(Tail(ds), tz)

\* dates.map(stringifyDate)
StringifyAll(ds, tz) == [k \in 1..Len(ds) |-> stringifyDate(ds[k], tz)]

\* ------------------------------------------------------------ the run
VARIABLES
    config,     \* currentConfig: the flags after post-processing
    tz,         \* the zone's getTimezoneOffset()
    os,         \* Deno.build.os
    repo,       \* the directory: isRepo, staged, unstaged, untracked, history,
                \* and the target file: work, index, head
    repo0,      \* the directory when the run started
    pc,         \* where mod.ts is
    dates,      \* mod.ts: const dates: Date[]
    theHashBeforeCommits,  \* mod.ts: the saved commit hash
    dateStrings,           \* processDateStrings: its parameter dates
    i,          \* processDateStrings: the loop index (0-based)
    logArray,   \* U_logger: the messages logged
    error,      \* the message console.error printed ("Module failed")
    commandAvailability,   \* mod.ts: what checkCommandAvailability returned
    calls,      \* the L_git functions called so far
    attempts,   \* how each turn of the loop ended, in order: what became of
                \* commit(dates[i]) and of the progress written after it
    hardReset,  \* the outcome of the call of hardResetToCommit, if any
    probe       \* the input and the result of a function applied on its own

vars == <<config, tz, os, repo, repo0, pc, dates, theHashBeforeCommits,
          dateStrings, i, logArray, error, commandAvailability, calls,
          attempts, hardReset, probe>>

\* getTimezoneOffset() of the zones the model runs in: UTC+1 and UTC-5.
TimezoneOffsets == {0 - 60, 300}

\* The outcomes of one runCommand call.
Outcomes == {"ok", "fail", "throw"}

\* A git command that only reads: when its process starts, its exit code is
\* 0 exactly when the repository has what it asks for.
QueryOutcomes(answers) == {IF answers THEN "ok" ELSE "fail", "throw"}

\* new Date() when the run starts, and futureNow.
Now(z) == DaysFromCivil(CurrentYear, 6, 15) * 1440 + 600 + z
futureNow(z) == DaysFromCivil(futureNowYear, 6, 15) * 1440 + 600 + z
futureNowString(z) == stringifyDate(futureNow(z), z)

\* A commit: its -m message and its --date.  A dated commit's message is
\* the date string itself.
Commit(message, date) == [message |-> message, date |-> date]
DatedCommit(date) == Commit("<date>", date)

\* The k-th commit made before the run.
ExistingCommit(k, z) ==
    Commit("existing", stringifyDate(DaysFromCivil(2020, 1, 1) * 1440 + k + z, z))

ExistingHistory(n, z) == [k \in 1..n |-> ExistingCommit(k, z)]

\* Log messages: the text and the date string it quotes, if any.
Msg(text) == [text |-> text, date |-> <<>>]
DateMsg(text, date) == [text |-> text, date |-> <<date>>]

Configs ==
    [help : BOOLEAN, letItGo : BOOLEAN, noCommit : BOOLEAN,
     cleanse : {"", "CLEANSE"}, reset : {"", "RESET"}]

\* Deno.build.os: createCommand runs the command through cmd /c on windows
\* and starts it as it is elsewhere.
OperatingSystems == {"windows", "linux"}

\* A directory: whether it is a repository, its commits, the kinds of
\* changes git status --porcelain finds in the files other than the target
\* file (staged: in the index, to be committed; unstaged: a tracked file
\* modified or deleted; untracked: a file git does not know, as is every
\* file of a directory that is no repository), and the text of the target
\* file (currentConfig.targetFile) in the working tree, in the index and in
\* the current commit: NoFile where it is absent, FileOf(text) where it
\* holds text.
NoFile == <<>>
FileOf(text) == <<text>>

Directory(isRepo, staged, unstaged, untracked, history) ==
    [isRepo |-> isRepo, staged |-> staged, unstaged |-> unstaged,
     untracked |-> untracked, history |-> history,
     work |-> NoFile, index |-> NoFile, head |-> NoFile]

CleanRepo(history) == Directory(TRUE, FALSE, FALSE, FALSE, history)

\* The directories a run may start in: not a repository (with or without
\* files in it), or a repository with up to MaxInitialCommits commits and
\* any changes (a modified tracked file is in a commit or in the index).
\* The target file and the file of endUserInfo are in none of them.
InitialRepos(z) ==
    {Directory(FALSE, FALSE, FALSE, u, <<>>) : u \in BOOLEAN}
    \cup
    {d \in {Directory(TRUE, s, m, u, ExistingHistory(n, z)) :
                s \in BOOLEAN, m \in BOOLEAN, u \in BOOLEAN,
                n \in 0..MaxInitialCommits} :
        d.unstaged => (d.staged \/ d.history # <<>>)}

\* No function is applied on its own during a run.
NoProbe == [fn |-> "none"]

Init ==
    /\ config \in Configs
    /\ tz \in TimezoneOffsets
    /\ os \in OperatingSystems
    /\ repo \in InitialRepos(tz)
    /\ repo0 = repo
    /\ pc = "start"
    /\ commandAvailability = [git |-> FALSE]
    /\ attempts = <<>>
    /\ probe = NoProbe
    /\ dates = <<>>
    /\ theHashBeforeCommits = [resolved |-> FALSE, commits |-> <<>>, file |-> NoFile]
    /\ dateStrings = <<>>
    /\ i = 0
    /\ logArray = {}
    /\ error = ""
    /\ calls = {}
    /\ hardReset = "none"

\* --------------------------------------------------------- git's effects
\* The index holds what the current commit does not.
Staged(r) == r.staged \/ r.index # r.head

\* The directory holds changes that are not committed.
Dirty(r) == r.staged \/ r.unstaged \/ r.untracked
                \/ r.work # r.index \/ r.index # r.head

\* git status --porcelain prints nothing.
IsClean(r) == ~Dirty(r)

\* git init
GitInit(r, o) == IF o = "ok" THEN [r EXCEPT !.isRepo = TRUE] ELSE r

\* runCommand(['echo', text, '>', file]).  On windows cmd /c reads '>' and
\* the text is written to the file; elsewhere echo is started without a
\* shell, prints its arguments and writes nothing.
EchoWrites(o, system) == o = "ok" /\ system = "windows"

EchoToFile(r, o, system, text) ==
    IF EchoWrites(o, system) THEN [r EXCEPT !.work = FileOf(text)] ELSE r

\* echo msg > file of createInitialCommit, with the file of endUserInfo,
\* which is not the target file: on windows a file git does not know is
\* there afterwards.
EchoToInfoFile(r, o, system) ==
    IF EchoWrites(o, system) THEN [r EXCEPT !.untracked = TRUE] ELSE r

\* The changes that are not staged may undo the staged ones: a file staged
\* as new and then deleted (git status: AD), a file staged as deleted and
\* written again.  The index then holds what the current commit holds once
\* they are staged too.
CanUndo(r) == r.staged /\ (r.unstaged \/ r.untracked)

\* git add . and git add -A: every change is staged; undone tells whether
\* the changes that were not staged undo the staged ones.
GitAdd(r, o, undone) ==
    IF o = "ok" /\ r.isRepo
    THEN [r EXCEPT !.staged = (r.staged \/ r.unstaged \/ r.untracked)
                                  /\ ~(undone /\ CanUndo(r)),
                   !.unstaged = FALSE, !.untracked = FALSE,
                   !.index = r.work]
    ELSE r

\* git commit --date date -m message commits the staged changes and exits
\* with code 0 only when there are some.
GitCommit(r, o, message, date) ==
    IF o = "ok" /\ r.isRepo /\ Staged(r)
    THEN [r EXCEPT !.history = Append(r.history, Commit(message, date)),
                   !.staged = FALSE, !.head = r.index]
    ELSE r

\* git reset --soft <root commit>: the later commits' changes stay staged.
\* The root commit holds the target file as the current one does.
GitResetSoftToRoot(r, o) ==
    IF o = "ok" /\ r.isRepo /\ r.history # <<>>
    THEN [r EXCEPT !.history = <<r.history[1]>>,
                   !.staged = r.staged \/ Len(r.history) > 1]
    ELSE r

\* The target file after git reset --hard to a commit that holds it as
\* file: a tracked file is the commit's, and so is a file the commit holds;
\* a file that neither git nor the commit knows stays.
HardResetFile(r, file) ==
    IF r.index # NoFile \/ r.head # NoFile \/ file # NoFile
    THEN file ELSE r.work

\* The files git does not know may be files the commit of the hash holds:
\* the index has not got them because their deletion is staged (git status:
\* D and ??), or because a commit made after the one of the hash took them
\* away.
HoldsUntracked(r, hash) ==
    r.untracked /\ (r.staged \/ (hash.resolved /\ r.history # hash.commits))

\* git reset --hard hash: the index and the tracked files are those of the
\* commit.  A file git does not know stays, unless the commit holds a file
\* of its name, which the reset then writes: undone tells whether the
\* untracked files are such files.  The commit of a resolved hash is the
\* one of the snapshot, with the target file as it was committed then.  An
\* unresolved hash is the text git printed when it could not resolve HEAD
\* ("HEAD"): no commit is left behind.
GitResetHard(r, o, hash, undone) ==
    IF o = "ok" /\ r.isRepo /\ (hash.resolved \/ r.history # <<>>)
    THEN LET file == IF hash.resolved THEN hash.file ELSE r.head
         IN  [r EXCEPT !.history = IF hash.resolved THEN hash.commits
                                   ELSE r.history,
                       !.staged = FALSE, !.unstaged = FALSE,
                       !.untracked = r.untracked
                                         /\ ~(undone /\ HoldsUntracked(r, hash)),
                       !.work = HardResetFile(r, file),
                       !.index = file, !.head = file]
    ELSE r

\* The outer catch of mod.ts: console.error('Module failed: ' + message).
Fail(message) ==
    /\ pc' = "failed"
    /\ error' = message


\* Error messages of mod.ts and L_git.ts.
ErrNoGit == "Aborting, cannot continue without Git"
ErrNotClean == "Aborting, repository is not clean"
ErrIsGitRepository == "Error checking if directory is a git repository"
ErrInitialize == "Error initializing Git repository"
ErrIsRepositoryClean == "Error checking if repository is clean"
ErrCleanRepository == "Error cleaning repository"
ErrGetCommitCount == "Error counting commits"
ErrCreateInitialCommit == "Error creating initial commit"
ErrResetRepository == "Error resetting repository"
ErrGetCurrentCommitHash == "Error saving current commit hash"
ErrHardReset == "Error performing hard reset to commit"

\* Log messages the properties speak of.
LogDateDropped == "Date is not acceptable"
LogDateAborted == "Error: One of the dates are not acceptable"
LogCommitSkipped == "Error committing for date"
LogCommitAborted == "Error: Error committing for date"
LogHardResetSuccessful == "Hard reset was successful."

\* The variables a step before the apply phase leaves alone.
ApplyUnchanged ==
    UNCHANGED <<dates, theHashBeforeCommits, dateStrings, i, attempts, hardReset>>
Frame == UNCHANGED <<config, tz, os, repo0, probe>>

\* mod.ts 22-25: --help prints the help and exits.
Help ==
    /\ pc = "start"
    /\ config.help
    /\ pc' = "exited"
    /\ UNCHANGED <<repo, logArray, error, calls, commandAvailability>>
    /\ ApplyUnchanged /\ Frame

\* COMMAND_CHECKS and the catch of checkCommandAvailability: a command is
\* available when its process started and exited with code 0.
IsAvailable(o) == o = "ok"

\* A check of the availability that never finds git missing.
GitIsMissing_never(availability) == FALSE

\* mod.ts 32: if (!commandAvailability['git'])
GitIsMissing(availability) == ~availability.git

\* mod.ts 51: if (config['cleanse'])
CleanseIsSet(cfg) == cfg.cleanse # ""

\* mod.ts 69: if (config.reset)
\* A run that never reads no-commit.
NoCommitIsSet_never(cfg) == FALSE

\* mod.ts 154: if (config['no-commit'])
NoCommitIsSet(cfg) == cfg.noCommit

ResetIsSet(cfg) == cfg.reset # ""

\* date_to_commit.ts, the catch of the filter: let-it-go drops the date,
\* else the error is thrown on.
DateErrorIsFatal(cfg) == ~cfg.letItGo

\* date_to_commit.ts, the catch of the loop: let-it-go logs the error and
\* goes on, else the error is thrown on.
CommitErrorIsFatal(cfg) == ~cfg.letItGo

\* mod.ts 27-36 with checkCommandAvailability: git --version and echo test.
\* The entry of echo is only logged and is not kept here.
CheckCommandAvailability(oGit, oEcho) ==
    /\ pc = "start"
    /\ ~config.help
    /\ commandAvailability' = [git |-> IsAvailable(oGit)]
    /\ IF GitIsMissing(commandAvailability')
       THEN Fail(ErrNoGit)
       ELSE pc' = "isGitRepository" /\ error' = error
    /\ UNCHANGED <<repo, logArray, calls>>
    /\ ApplyUnchanged /\ Frame

\* mod.ts 38-39 and 40/44 with isGitRepository: git rev-parse
\* --is-inside-work-tree; a repository when the exit code is 0.
IsGitRepository(o) ==
    /\ pc = "isGitRepository"
    /\ o \in QueryOutcomes(repo.isRepo)
    /\ calls' = calls \cup {"isGitRepository"}
    /\ IF o = "throw" THEN Fail(ErrIsGitRepository)
       ELSE /\ pc' = IF o = "ok" THEN "isRepositoryClean" ELSE "initializeGitRepository"
            /\ error' = error
    /\ UNCHANGED <<repo, logArray, commandAvailability>>
    /\ ApplyUnchanged /\ Frame

\* mod.ts 41-43 with initializeGitRepository: git init, its exit code unread.
InitializeGitRepository(o) ==
    /\ pc = "initializeGitRepository"
    /\ calls' = calls \cup {"initializeGitRepository"}
    /\ IF o = "throw"
       THEN Fail(ErrInitialize) /\ repo' = repo
       ELSE /\ repo' = GitInit(repo, o)
            /\ pc' = "isRepositoryClean"
            /\ error' = error
    /\ UNCHANGED <<logArray, commandAvailability>>
    /\ ApplyUnchanged /\ Frame

\* mod.ts 48-60 (all but the call of cleanRepository) with isRepositoryClean:
\* git status --porcelain; clean when stdout is empty, which it also is when
\* git fails.
IsRepositoryClean(o) ==
    /\ pc = "isRepositoryClean"
    /\ o \in QueryOutcomes(repo.isRepo)
    /\ calls' = calls \cup {"isRepositoryClean"}
    /\ IF o = "throw" THEN Fail(ErrIsRepositoryClean)
       ELSE LET isClean == o = "fail" \/ IsClean(repo) IN
            IF isClean THEN pc' = "getCommitCount" /\ error' = error
            ELSE IF CleanseIsSet(config)
                 THEN pc' = "cleanRepository" /\ error' = error
            ELSE Fail(ErrNotClean)
    /\ UNCHANGED <<repo, logArray, commandAvailability>>
    /\ ApplyUnchanged /\ Frame

\* mod.ts 53-54 with cleanRepository(config.cleanse): git add -A, then git
\* commit --date futureNowString -m commitMsg.
CleanRepository(oAdd, oCommit) ==
    /\ pc = "cleanRepository"
    /\ calls' = calls \cup {"cleanRepository"}
    /\ \E undone \in {u \in BOOLEAN : u => CanUndo(repo)} :
       IF oAdd = "throw" THEN Fail(ErrCleanRepository) /\ repo' = repo
       ELSE IF oCommit = "throw"
       THEN Fail(ErrCleanRepository) /\ repo' = GitAdd(repo, oAdd, undone)
       ELSE /\ repo' = GitCommit(GitAdd(repo, oAdd, undone), oCommit,
                                 config.cleanse, futureNowString(tz))
            /\ pc' = "getCommitCount"
            /\ error' = error
    /\ UNCHANGED <<logArray, commandAvailability>>
    /\ ApplyUnchanged /\ Frame

\* HEAD names a commit.
HasHead(r) == r.isRepo /\ r.history # <<>>

\* getCommitCount: parseInt of the output of git rev-list --count HEAD, which
\* is empty (NaN, here 0) when git fails, as it does without any commit.
CommitCount(r, o) == IF o = "ok" THEN Len(r.history) ELSE 0

\* mod.ts 62-63, 67-69 and 78-83 with getCommitCount.
GetCommitCount(o) ==
    /\ pc = "getCommitCount"
    /\ o \in QueryOutcomes(HasHead(repo))
    /\ calls' = calls \cup {"getCommitCount"}
    /\ IF o = "throw" THEN Fail(ErrGetCommitCount)
       ELSE LET commitCount == CommitCount(repo, o) IN
            /\ pc' = IF commitCount = 0 THEN "createInitialCommit"
                     ELSE IF ResetIsSet(config) THEN "resetRepository"
                     ELSE "prepareDates"
            /\ error' = error
    /\ UNCHANGED <<repo, logArray, commandAvailability>>
    /\ ApplyUnchanged /\ Frame

\* The three commands of a commit: echo > file, which leaves the directory
\* as echoed, git add ., git commit.  The commands after one that throws are
\* not run.
EchoAddCommit(r, echoed, oEcho, oAdd, oCommit, undone, message, date) ==
    IF oEcho = "throw" THEN r
    ELSE IF oAdd = "throw" THEN echoed
    ELSE GitCommit(GitAdd(echoed, oAdd, undone), oCommit, message, date)

Rejected(oEcho, oAdd, oCommit) == "throw" \in {oEcho, oAdd, oCommit}

\* mod.ts 64-66 with createInitialCommit: echo msg > file, git add ., git
\* commit --quiet --date futureNowString -m INIT.  A file that echo wrote is
\* a change nothing undoes.
CreateInitialCommit(oEcho, oAdd, oCommit) ==
    /\ pc = "createInitialCommit"
    /\ calls' = calls \cup {"createInitialCommit"}
    /\ \E undone \in {u \in BOOLEAN :
                         u => CanUndo(repo) /\ ~EchoWrites(oEcho, os)} :
           repo' = EchoAddCommit(repo, EchoToInfoFile(repo, oEcho, os),
                                 oEcho, oAdd, oCommit, undone,
                                 "INIT", futureNowString(tz))
    /\ IF Rejected(oEcho, oAdd, oCommit)
       THEN Fail(ErrCreateInitialCommit)
       ELSE pc' = "prepareDates" /\ error' = error
    /\ UNCHANGED <<logArray, commandAvailability>>
    /\ ApplyUnchanged /\ Frame

\* git add -all is no option of git add (it reads as the unknown switch -a):
\* the command starts and exits with an error.
AddAllOutcomes == {"fail", "throw"}

\* resetRepository's commands: git rev-list --max-parents=0 HEAD, git reset
\* --soft rootCommitHash, git add -all, git commit --date futureNowString -m
\* commitMsg.  Without a root hash the soft reset has nothing to reset to.
\* What is staged, by the soft reset or from before, is committed; other
\* changes are not, since git add -all adds nothing.
SoftResetAndCommit(r, oRoot, oSoft, oAdd, oCommit, message, date) ==
    IF oRoot = "throw" THEN r
    ELSE LET soft == IF oRoot = "ok" THEN GitResetSoftToRoot(r, oSoft) ELSE r IN
         IF "throw" \in {oSoft, oAdd} THEN soft
         ELSE GitCommit(soft, oCommit, message, date)

\* mod.ts 70-77 with resetRepository(config.reset).
ResetRepository(oRoot, oSoft, oAdd, oCommit) ==
    /\ pc = "resetRepository"
    /\ oRoot \in QueryOutcomes(HasHead(repo))
    /\ oAdd \in AddAllOutcomes
    /\ calls' = calls \cup {"resetRepository"}
    /\ repo' = SoftResetAndCommit(repo, oRoot, oSoft, oAdd, oCommit,
                                  config.reset, futureNowString(tz))
    /\ IF "throw" \in {oRoot, oSoft, oAdd, oCommit}
       THEN Fail(ErrResetRepository)
       ELSE pc' = "prepareDates" /\ error' = error
    /\ UNCHANGED <<logArray, commandAvailability>>
    /\ ApplyUnchanged /\ Frame


\* The positional arguments the model draws from: an acceptable date, a
\* date before 1970, a relative day number and a signed number.
TokenPool ==
    { <<"1", "9", "9", "0", "-", "1", "2", "-", "2", "3">>,
      <<"1", "9", "6", "9", "-", "0", "6", "-", "1", "5">>,
      <<"1">>,
      <<"-", "3">> }

TokenLists == UNION {[1..n -> TokenPool] : n \in 0..MaxTokens}

Directions == {"+", "-", "x"}

\* The directions a whole run is given: one that is valid and one that is
\* not.
RunDirections == {"+", "x"}

\* mod.ts 85-159: no dates given stops the module; the dates are resolved;
\* --no-commit stops the module.
PreparingDates(items, direction) ==
    /\ pc = "prepareDates"
    /\ IF items = <<>>
       THEN pc' = "exited" /\ error' = error /\ dates' = dates
       ELSE LET r == PrepareDates(items, direction, tz) IN
            /\ dates' = r.dates
            /\ IF r.error # "" THEN Fail(r.error)
               ELSE /\ pc' = IF NoCommitIsSet(config) THEN "exited"
                             ELSE "getCurrentCommitHash"
                    /\ error' = error
    /\ UNCHANGED <<repo, logArray, calls, theHashBeforeCommits, dateStrings,
                   i, attempts, hardReset, commandAvailability>>
    /\ Frame

\* What getCurrentCommitHash returns: the head's hash, which stands for the
\* whole history and for the target file as the head commit holds it, or
\* the text git prints when it cannot resolve HEAD.
\* A hash that stands for no commit at all.
Hash_ofNothing(r) == [resolved |-> TRUE, commits |-> <<>>, file |-> r.head]

Hash(r) == [resolved |-> TRUE, commits |-> r.history, file |-> r.head]
Unresolved == [resolved |-> FALSE, commits |-> <<>>, file |-> NoFile]

\* mod.ts 161-163 with getCurrentCommitHash: git rev-parse HEAD, which fails
\* without any commit.
GetCurrentCommitHash(o) ==
    /\ pc = "getCurrentCommitHash"
    /\ o \in QueryOutcomes(HasHead(repo))
    /\ calls' = calls \cup {"getCurrentCommitHash"}
    /\ IF o = "throw"
       THEN Fail(ErrGetCurrentCommitHash) /\ UNCHANGED theHashBeforeCommits
       ELSE /\ theHashBeforeCommits' =
                   IF o = "ok" THEN Hash(repo) ELSE Unresolved
            /\ pc' = "processDates"
            /\ error' = error
    /\ UNCHANGED <<repo, logArray, dates, dateStrings, i, attempts, hardReset,
                   commandAvailability>>
    /\ Frame

\* The dates the filter of processDates refuses.
Refused(ds, z) == {k \in 1..Len(ds) : ~IsAcceptable(ds[k], z)}

\* mod.ts 164-170 with processDates up to the first commit: the filter
\* throws at the first date it refuses unless let-it-go is set.
ProcessDates ==
    /\ pc = "processDates"
    /\ LET refused == Refused(dates, tz) IN
       IF refused # {} /\ DateErrorIsFatal(config)
       THEN /\ logArray' = logArray \cup
                   {DateMsg(LogDateAborted,
                            stringifyDate(dates[CHOOSE k \in refused :
                                \A j \in refused : k <= j], tz))}
            /\ pc' = "hardResetToCommit"
            /\ UNCHANGED <<dateStrings, i>>
       ELSE /\ logArray' = logArray \cup
                   {DateMsg(LogDateDropped, stringifyDate(dates[k], tz)) :
                        k \in refused}
            /\ dateStrings' = StringifyAll(FilterDates(dates, tz), tz)
            /\ i' = 0
            /\ pc' = IF dateStrings' = <<>> THEN "done" ELSE "commit"
    /\ UNCHANGED <<repo, error, calls, dates, theHashBeforeCommits, attempts,
                   hardReset, commandAvailability>>
    /\ Frame

\* One turn of the loop of processDateStrings: commit(dates[i]) (echo, git
\* add ., git commit --quiet --date date -m date), the progress written to
\* Deno.stdout once commit() has resolved, the catch around the two, the
\* sleep.  The catch receives a rejected commit() as well as a rejected
\* write, which comes after the commit was made.
CommitDate(oEcho, oAdd, oCommit, oWrite) ==
    /\ pc = "commit"
    /\ calls' = calls \cup {"commit"}
    /\ \E undone \in {u \in BOOLEAN : u => CanUndo(repo)} :
       LET date == dateStrings[i + 1]
           rejected == Rejected(oEcho, oAdd, oCommit)
           caught == rejected \/ oWrite = "throw"
       IN
       /\ repo' = EchoAddCommit(repo, EchoToFile(repo, oEcho, os, date),
                                 oEcho, oAdd, oCommit, undone, "<date>", date)
       /\ attempts' = Append(attempts,
               [commit |-> IF rejected THEN "rejected"
                           ELSE IF repo'.history # repo.history THEN "created"
                           ELSE "failed",
                write |-> IF rejected THEN "none" ELSE oWrite])
       /\ IF caught /\ CommitErrorIsFatal(config)
          THEN /\ logArray' = logArray \cup {DateMsg(LogCommitAborted, date)}
               /\ pc' = "hardResetToCommit"
               /\ i' = i
          ELSE /\ logArray' = IF caught
                              THEN logArray \cup {DateMsg(LogCommitSkipped, date)}
                              ELSE logArray
               /\ i' = i + 1
               /\ pc' = IF i + 1 < Len(dateStrings) THEN "commit" ELSE "done"
    /\ UNCHANGED <<error, dates, theHashBeforeCommits, dateStrings, hardReset,
                   commandAvailability>>
    /\ Frame

\* mod.ts 170-172 with hardResetToCommit(theHashBeforeCommits): git reset
\* --hard commitHash, its exit code unread.
HardResetToCommit(o) ==
    /\ pc = "hardResetToCommit"
    /\ o = "ok" => /\ repo.isRepo
                   /\ theHashBeforeCommits.resolved \/ repo.history # <<>>
    /\ calls' = calls \cup {"hardResetToCommit"}
    /\ hardReset' = o
    /\ IF o = "throw"
       THEN Fail(ErrHardReset) /\ UNCHANGED <<repo, logArray>>
       ELSE /\ \E undone \in {u \in BOOLEAN :
                               u => HoldsUntracked(repo, theHashBeforeCommits)} :
                   repo' = GitResetHard(repo, o, theHashBeforeCommits, undone)
            /\ logArray' = logArray \cup {Msg(LogHardResetSuccessful)}
            /\ pc' = "done"
            /\ error' = error
    /\ UNCHANGED <<dates, theHashBeforeCommits, dateStrings, i, attempts,
                   commandAvailability>>
    /\ Frame

Next ==
    \/ Help
    \/ \E oGit \in Outcomes, oEcho \in Outcomes : CheckCommandAvailability(oGit, oEcho)
    \/ \E o \in Outcomes : IsGitRepository(o)
    \/ \E o \in Outcomes : InitializeGitRepository(o)
    \/ \E o \in Outcomes : IsRepositoryClean(o)
    \/ \E oAdd \in Outcomes, oCommit \in Outcomes : CleanRepository(oAdd, oCommit)
    \/ \E o \in Outcomes : GetCommitCount(o)
    \/ \E oEcho \in Outcomes, oAdd \in Outcomes, oCommit \in Outcomes :
          CreateInitialCommit(oEcho, oAdd, oCommit)
    \/ \E oRoot \in Outcomes, oSoft \in Outcomes, oAdd \in Outcomes,
          oCommit \in Outcomes : ResetRepository(oRoot, oSoft, oAdd, oCommit)
    \/ \E items \in TokenLists, direction \in RunDirections :
          PreparingDates(items, direction)
    \/ \E o \in Outcomes : GetCurrentCommitHash(o)
    \/ ProcessDates
    \/ \E oEcho \in Outcomes, oAdd \in Outcomes, oCommit \in Outcomes,
          oWrite \in {"ok", "throw"} :
          CommitDate(oEcho, oAdd, oCommit, oWrite)
    \/ \E o \in Outcomes : HardResetToCommit(o)

\* ------------------------------------- processDates applied on its own
\* processDates is exported and takes any Date[]: it is applied here to one
\* date built from calendar fields around the two ends of the accepted
\* range, in a repository with one commit whose hash has been saved; the
\* date it accepts goes through the loop of processDateStrings.
ProbeYears == {1969, 1970, 1971, 2000, CurrentYear + 72, CurrentYear + 73,
               CurrentYear + 74, CurrentYear + 75}
ProbeDays == {<<1, 1>>, <<12, 31>>}
ProbeMinutes == {0, 1439}

InitRange ==
    /\ config \in {c \in Configs : /\ ~c.help /\ ~c.noCommit
                                   /\ c.cleanse = "" /\ c.reset = ""}
    /\ tz \in TimezoneOffsets
    /\ os = "linux"
    /\ repo = CleanRepo(ExistingHistory(1, tz))
    /\ repo0 = repo
    /\ pc = "processDates"
    /\ \E y \in ProbeYears, md \in ProbeDays, m \in ProbeMinutes :
           /\ probe = [fn |-> "processDates", year |-> y]
           /\ dates = <<DaysFromCivil(y, md[1], md[2]) * 1440 + m + tz>>
    /\ theHashBeforeCommits = Hash(repo)
    /\ dateStrings = <<>>
    /\ i = 0
    /\ logArray = {}
    /\ error = ""
    /\ commandAvailability = [git |-> TRUE]
    /\ calls = {"isGitRepository", "isRepositoryClean", "getCommitCount",
                "getCurrentCommitHash"}
    /\ attempts = <<>>
    /\ hardReset = "none"

NextRange ==
    \/ ProcessDates
    \/ \E oEcho \in Outcomes, oAdd \in Outcomes, oCommit \in Outcomes,
          oWrite \in {"ok", "throw"} :
          CommitDate(oEcho, oAdd, oCommit, oWrite)

SpecRange == InitRange /\ [][NextRange]_vars

\* -------------------------------- the dates prepared on their own
\* The positional arguments as the closure reads them (item.toString()):
\* a date, the date three days later, a date that is not on the calendar,
\* the day numbers 0 and 3, and a signed number.
TokenD == <<"1", "9", "9", "0", "-", "1", "2", "-", "2", "3">>
TokenE == <<"1", "9", "9", "0", "-", "1", "2", "-", "2", "6">>
TokenNoDay == <<"1", "9", "9", "0", "-", "1", "3", "-", "4", "5">>
Token0 == <<"0">>
Token3 == <<"3">>
TokenPlus3 == <<"+", "3">>

ProbeTokenPool == {TokenD, TokenE, TokenNoDay, Token0, Token3, TokenPlus3}

ProbeTokenLists == UNION {[1..n -> ProbeTokenPool] : n \in 0..MaxProbeTokens}

\* The run has reached 'Preparing dates' in a clean repository with one
\* commit; config._ and config.direction are any list and any direction.
InitResolve ==
    /\ config \in {c \in Configs : /\ ~c.help /\ ~c.letItGo
                                   /\ c.cleanse = "" /\ c.reset = ""}
    /\ tz \in TimezoneOffsets
    /\ os = "linux"
    /\ repo = CleanRepo(ExistingHistory(1, tz))
    /\ repo0 = repo
    /\ pc = "prepareDates"
    /\ probe \in [fn : {"prepareDates"}, items : ProbeTokenLists,
                  direction : Directions]
    /\ dates = <<>>
    /\ theHashBeforeCommits = Unresolved
    /\ dateStrings = <<>>
    /\ i = 0
    /\ logArray = {}
    /\ error = ""
    /\ commandAvailability = [git |-> TRUE]
    /\ calls = {"isGitRepository", "isRepositoryClean", "getCommitCount"}
    /\ attempts = <<>>
    /\ hardReset = "none"

NextResolve == PreparingDates(probe.items, probe.direction)

SpecResolve == InitResolve /\ [][NextResolve]_vars

\* ------------------------------- formatMilliseconds applied on its own
\* The variables of a run that has not started, for a function that reads
\* none of them.
NoRun(at) ==
    /\ tz = 0 - 60
    /\ os = "linux"
    /\ repo = Directory(FALSE, FALSE, FALSE, FALSE, <<>>)
    /\ repo0 = repo
    /\ pc = at
    /\ dates = <<>>
    /\ theHashBeforeCommits = Unresolved
    /\ dateStrings = <<>>
    /\ i = 0
    /\ logArray = {}
    /\ error = ""
    /\ commandAvailability = [git |-> FALSE]
    /\ calls = {}
    /\ attempts = <<>>
    /\ hardReset = "none"

NoRunUnchanged ==
    UNCHANGED <<config, tz, os, repo, repo0, dates, theHashBeforeCommits,
                dateStrings, i, logArray, error, commandAvailability, calls,
                attempts, hardReset>>

\* The durations: the first and the last millisecond of every second up to
\* MaxProbeSeconds.
ProbeMillis == {1000 * s + r : s \in 0..MaxProbeSeconds, r \in {0, 999}}

InitFormat ==
    /\ NoRun("formatMilliseconds")
    /\ config = [help |-> FALSE, letItGo |-> FALSE, noCommit |-> FALSE,
                 cleanse |-> "", reset |-> ""]
    /\ probe \in [fn : {"formatMilliseconds"}, ms : ProbeMillis, text : {<<>>}]

FormatMilliseconds ==
    /\ pc = "formatMilliseconds"
    /\ probe' = [probe EXCEPT !.text = formatMilliseconds(probe.ms)]
    /\ pc' = "done"
    /\ NoRunUnchanged

NextFormat == FormatMilliseconds

SpecFormat == InitFormat /\ [][NextFormat]_vars

\* --------------------------------- the external processes of a run
\* A run seen as the processes it starts and awaits.  probe holds where the
\* program is (the function op, its k-th command, calling it or suspended
\* on it), the loop index i over n dates, whether git answered the check,
\* and the processes in flight.  What the repository and the tokens hold
\* is not followed: the answer of a query and the outcome of the
\* resolution are any of those possible.

\* The commands each function runs, in order; sleep is a timer and write
\* is the progress written to Deno.stdout, both awaited like a process.
SeqCommands(op) ==
    CASE op = "checkCommandAvailability" -> <<"git --version", "echo test">>
      [] op = "isGitRepository" -> <<"git rev-parse --is-inside-work-tree">>
      [] op = "initializeGitRepository" -> <<"git init">>
      [] op = "isRepositoryClean" -> <<"git status --porcelain">>
      [] op = "cleanRepository" -> <<"git add -A", "git commit">>
      [] op = "getCommitCount" -> <<"git rev-list --count HEAD">>
      [] op = "createInitialCommit" -> <<"echo", "git add .", "git commit">>
      [] op = "resetRepository" ->
            <<"git rev-list --max-parents=0 HEAD", "git reset --soft",
              "git add -all", "git commit">>
      [] op = "getCurrentCommitHash" -> <<"git rev-parse HEAD">>
      [] op = "commit" -> <<"echo", "git add .", "git commit">>
      [] op = "write" -> <<"Deno.stdout.write">>
      [] op = "sleep" -> <<"setTimeout">>
      [] op = "hardResetToCommit" -> <<"git reset --hard">>

SeqEnded == {"exited", "failed", "done"}

SeqGoto(p, op) == [p EXCEPT !.op = op, !.k = 1, !.phase = "call"]

\* mod.ts 85-159: no token, a token or a direction refused, no-commit, or
\* m dates.
SeqPrepare(p, valid, m, cfg) ==
    IF m = 0 THEN SeqGoto(p, "exited")
    ELSE IF ~valid THEN SeqGoto(p, "failed")
    ELSE IF NoCommitIsSet(cfg) THEN SeqGoto(p, "exited")
    ELSE [SeqGoto(p, "getCurrentCommitHash") EXCEPT !.n = m]

\* Where the program goes when the last command of p.op has resolved;
\* answer is what the function returned, or whether every date is in
\* range, and then m is the number of dates that are, which processDates
\* keeps.
SeqAfter(p, answer, valid, m, cfg) ==
    CASE p.op = "checkCommandAvailability" ->
            IF GitIsMissing([git |-> p.git]) THEN SeqGoto(p, "failed")
            ELSE SeqGoto(p, "isGitRepository")
      [] p.op = "isGitRepository" ->
            IF answer THEN SeqGoto(p, "isRepositoryClean")
            ELSE SeqGoto(p, "initializeGitRepository")
      [] p.op = "initializeGitRepository" -> SeqGoto(p, "isRepositoryClean")
      [] p.op = "isRepositoryClean" ->
            IF answer THEN SeqGoto(p, "getCommitCount")
            ELSE IF CleanseIsSet(cfg) THEN SeqGoto(p, "cleanRepository")
            ELSE SeqGoto(p, "failed")
      [] p.op = "cleanRepository" -> SeqGoto(p, "getCommitCount")
      [] p.op = "getCommitCount" ->
            IF ~answer THEN SeqGoto(p, "createInitialCommit")
            ELSE IF ResetIsSet(cfg) THEN SeqGoto(p, "resetRepository")
            ELSE SeqPrepare(p, valid, m, cfg)
      [] p.op \in {"createInitialCommit", "resetRepository"} ->
            SeqPrepare(p, valid, m, cfg)
      [] p.op = "getCurrentCommitHash" ->
            IF ~answer /\ DateErrorIsFatal(cfg)
            THEN SeqGoto(p, "hardResetToCommit")
            ELSE LET kept == IF answer THEN p.n ELSE m IN
                 IF kept = 0 THEN SeqGoto(p, "done")
                 ELSE [SeqGoto(p, "commit") EXCEPT !.n = kept, !.i = 0]
      [] p.op = "commit" -> SeqGoto(p, "write")
      [] p.op = "write" -> SeqGoto(p, "sleep")
      [] p.op = "sleep" ->
            IF p.i + 1 < p.n THEN [SeqGoto(p, "commit") EXCEPT !.i = p.i + 1]
            ELSE SeqGoto(p, "done")
      [] p.op = "hardResetToCommit" -> SeqGoto(p, "done")

\* The awaited command resolved: the next command of the function, or what
\* follows the function.
SeqResolved(p, answer, valid, m, cfg) ==
    LET q == IF p.op = "checkCommandAvailability" /\ p.k = 1
             THEN [p EXCEPT !.git = answer] ELSE p
    IN  IF q.k < Len(SeqCommands(q.op))
        THEN [q EXCEPT !.k = q.k + 1, !.phase = "call"]
        ELSE SeqAfter(q, answer, valid, m, cfg)

\* The awaited command rejected: the catch that receives it.  The catch of
\* the loop receives the commands of commit() and the write alike and
\* throws on, past the sleep, unless let-it-go is set.
SeqRejected(p, answer, valid, m, cfg) ==
    CASE p.op = "checkCommandAvailability" ->
            IF p.k < Len(SeqCommands(p.op))
            THEN [p EXCEPT !.k = p.k + 1, !.phase = "call"]
            ELSE SeqAfter(p, answer, valid, m, cfg)
      [] p.op \in {"commit", "write"} ->
            IF CommitErrorIsFatal(cfg) THEN SeqGoto(p, "hardResetToCommit")
            ELSE SeqGoto(p, "sleep")
      [] OTHER -> SeqGoto(p, "failed")

\* The process the program is calling or awaiting.
SeqProcess(p) == [op |-> p.op, k |-> p.k, i |-> p.i]

\* A program that goes on to the next turn of the loop without awaiting
\* the sleep it started.
SeqAfterCall_sleepNotAwaited(p, cfg) ==
    IF p.op = "sleep" THEN SeqAfter(p, TRUE, TRUE, 0, cfg)
    ELSE [p EXCEPT !.phase = "await"]

\* await runCommand(...), .then(() => runCommand(...)), await sleep(...):
\* the program is suspended until the process started has settled.
SeqAfterCall(p, cfg) == [p EXCEPT !.phase = "await"]

InitSequence ==
    /\ NoRun("processes")
    /\ config \in {c \in Configs : ~c.help}
    /\ probe = [fn |-> "run", op |-> "checkCommandAvailability", k |-> 1,
                phase |-> "call", i |-> 0, n |-> 0, git |-> FALSE,
                running |-> {}]

\* runCommand: command.output() starts the process.
CallCommand ==
    /\ probe.fn = "run"
    /\ probe.op \notin SeqEnded
    /\ probe.phase = "call"
    /\ probe' = [SeqAfterCall(probe, config) EXCEPT
                     !.running = probe.running \cup {SeqProcess(probe)}]
    /\ UNCHANGED pc
    /\ NoRunUnchanged

\* A process in flight ends; the program goes on when it awaits it.
SettleCommand(proc, o, answer, valid, m) ==
    /\ probe.fn = "run"
    /\ proc \in probe.running
    /\ proc.op = "sleep" => o = "resolved"
    /\ (proc.op = "getCurrentCommitHash" /\ ~answer) => m < probe.n
    /\ LET p == [probe EXCEPT !.running = probe.running \ {proc}] IN
       probe' = IF probe.phase = "await" /\ proc = SeqProcess(probe)
                THEN IF o = "resolved"
                     THEN SeqResolved(p, answer, valid, m, config)
                     ELSE SeqRejected(p, answer, valid, m, config)
                ELSE p
    /\ UNCHANGED pc
    /\ NoRunUnchanged

NextSequence ==
    \/ CallCommand
    \/ \E proc \in probe.running, o \in {"resolved", "rejected"},
          answer \in BOOLEAN, valid \in BOOLEAN, m \in 0..MaxProbeDates :
          SettleCommand(proc, o, answer, valid, m)

SpecSequence == InitSequence /\ [][NextSequence]_vars

\* ------------------------------------------------------------ config.ts
\* The flag definitions.  A property a definition does not have is Null.
boolFlags ==
    <<[name |-> "help", alias |-> <<"h">>, fallback |-> Null, default |-> Null],
      [name |-> "silent", alias |-> Null, fallback |-> Null, default |-> Null],
      [name |-> "let-it-go", alias |-> Null, fallback |-> Null, default |-> Null],
      [name |-> "no-commit", alias |-> <<"n">>, fallback |-> Null, default |-> Null]>>

\* String flags of which one takes the alias of help.
stringFlags_aliasTwice ==
    <<[name |-> "cleanse", alias |-> Null, fallback |-> <<"CLEANSE">>, default |-> Null],
      [name |-> "reset", alias |-> Null, fallback |-> <<"RESET">>, default |-> Null],
      [name |-> "direction", alias |-> <<"h">>, fallback |-> Null, default |-> <<"+">>]>>

stringFlags ==
    <<[name |-> "cleanse", alias |-> Null, fallback |-> <<"CLEANSE">>, default |-> Null],
      [name |-> "reset", alias |-> Null, fallback |-> <<"RESET">>, default |-> Null],
      [name |-> "direction", alias |-> <<"d">>, fallback |-> Null, default |-> <<"+">>]>>

Range(s) == {s[k] : k \in 1..Len(s)}

\* createFlagAliases: the reduce over [...stringFlags, ...boolFlags] that
\* sets map[name] = alias for every definition with an alias.
RECURSIVE ReduceAliases(_, _)
ReduceAliases(map, defs) ==
    IF defs = <<>> THEN map
    ELSE LET currentFlagDef == Head(defs) IN
         ReduceAliases(
             IF currentFlagDef.alias # Null
             THEN [n \in DOMAIN map \cup {currentFlagDef.name} |->
                      IF n = currentFlagDef.name THEN currentFlagDef.alias[1]
                      ELSE map[n]]
             ELSE map,
             Tail(defs))

createFlagAliases == ReduceAliases(<<>>, stringFlags \o boolFlags)

\* parseArgs: the keys that stand for the same flag as key, through the
\* alias option.
SameFlagKeys(key, alias) ==
    {key} \cup {alias[n] : n \in {x \in DOMAIN alias : x = key}}
          \cup {n \in DOMAIN alias : alias[n] = key}

BooleanNames == {f.name : f \in Range(boolFlags)}
StringNames == {f.name : f \in Range(stringFlags)}

KeysOf(names, alias) == UNION {SameFlagKeys(n, alias) : n \in names}

\* parseArgs before the first argument: every boolean flag is false, no
\* string flag has a property (Null is undefined).
ParsedNothing(alias) ==
    [bools   |-> [k \in KeysOf(BooleanNames, alias) |-> FALSE],
     strings |-> [k \in KeysOf(StringNames, alias) |-> Null]]

\* parseArgs on one option --key, --key=value or --key value: a boolean
\* flag becomes true, a string flag takes the value, '' without one; an
\* option that is no flag goes to the unknown callback and is left out.
SetOption(parsed, opt, alias) ==
    LET keys == SameFlagKeys(opt.key, alias) IN
    IF keys \cap BooleanNames # {}
    THEN [parsed EXCEPT !.bools =
             [k \in DOMAIN parsed.bools |->
                 IF k \in keys THEN TRUE ELSE parsed.bools[k]]]
    ELSE IF keys \cap StringNames # {}
    THEN [parsed EXCEPT !.strings =
             [k \in DOMAIN parsed.strings |->
                 IF k \in keys
                 THEN IF opt.value = Null THEN <<"">> ELSE opt.value
                 ELSE parsed.strings[k]]]
    ELSE parsed

RECURSIVE ParseFrom(_, _, _)
ParseFrom(parsed, argv, alias) ==
    IF argv = <<>> THEN parsed
    ELSE ParseFrom(SetOption(parsed, Head(argv), alias), Tail(argv), alias)

parseArgs(argv) == ParseFrom(ParsedNothing(createFlagAliases), argv,
                             createFlagAliases)

\* if (value): neither undefined nor ''.
Truthy(v) == v # Null /\ v # <<"">>

\* config.ts 158-166: a flag with a default takes it unless it is truthy.
PostProcessDefaults(parsedArgs) ==
    [parsedArgs EXCEPT !.strings =
        [k \in DOMAIN parsedArgs.strings |->
            IF \E flag \in Range(stringFlags) :
                   flag.name = k /\ flag.default # Null
            THEN IF Truthy(parsedArgs.strings[k]) THEN parsedArgs.strings[k]
                 ELSE (CHOOSE flag \in Range(stringFlags) : flag.name = k).default
            ELSE parsedArgs.strings[k]]]

\* A post-processing that leaves the flags with a fallback as parsed.
PostProcessFallbacks_skipped(parsedArgs) == parsedArgs

\* config.ts 167-175: a flag with a fallback becomes '' when undefined and
\* its fallback when ''.
PostProcessFallbacks(parsedArgs) ==
    [parsedArgs EXCEPT !.strings =
        [k \in DOMAIN parsedArgs.strings |->
            IF \E flag \in Range(stringFlags) :
                   flag.name = k /\ flag.fallback # Null
            THEN IF parsedArgs.strings[k] = Null THEN <<"">>
                 ELSE IF parsedArgs.strings[k] = <<"">>
                 THEN (CHOOSE flag \in Range(stringFlags) : flag.name = k).fallback
                 ELSE parsedArgs.strings[k]
            ELSE parsedArgs.strings[k]]]

\* config_test.ts checkForDuplicates(prop).  An occurrence is the place of
\* a definition whose key is not skipped: the array and its index.  A key
\* that is falsy (undefined, '') is skipped.
FlagArrays == [boolFlags |-> boolFlags, stringFlags |-> stringFlags]

Occurrences(prop) ==
    {<<arrLabel, k>> \in
            (DOMAIN FlagArrays) \X (1..(Len(boolFlags) + Len(stringFlags))) :
        /\ k <= Len(FlagArrays[arrLabel])
        /\ LET flagDef == FlagArrays[arrLabel][k] IN
           IF prop = "name" THEN flagDef.name # ""
           ELSE flagDef.alias \notin {Null, <<"">>}}

PropOf(prop, occ) ==
    LET flagDef == FlagArrays[occ[1]][occ[2]] IN
    IF prop = "name" THEN flagDef.name ELSE flagDef.alias[1]

\* occurrenceMap is an object literal: for a key that names a property it
\* inherits from Object.prototype, occurrenceMap[key] is that property, a
\* function, which is truthy and has no push: the call throws a TypeError.
\* Else the keys with more than one occurrence are the duplicates, and an
\* Error is thrown when there are some.
checkForDuplicates(prop) ==
    LET inherited == {"constructor", "hasOwnProperty", "isPrototypeOf",
                      "propertyIsEnumerable", "toLocaleString", "toString",
                      "valueOf", "__defineGetter__", "__defineSetter__",
                      "__lookupGetter__", "__lookupSetter__"}
        duplicates ==
            {PropOf(prop, occ) : occ \in
                {o \in Occurrences(prop) :
                    \E other \in Occurrences(prop) :
                        other # o /\ PropOf(prop, other) = PropOf(prop, o)}}
    IN  IF \E occ \in Occurrences(prop) : PropOf(prop, occ) \in inherited
        THEN [thrown |-> "TypeError", duplicates |-> {}]
        ELSE [thrown |-> IF duplicates = {} THEN "" ELSE "Error",
              duplicates |-> duplicates]

\* ------------------------------------ config.ts evaluated on its own
\* Deno.args: up to MaxArgs options, each a key and no value (--key) or a
\* value (--key=value, --key value).
ProbeBoolKeys == {"help", "h", "silent", "let-it-go", "no-commit", "n"}
ProbeStringKeys == {"cleanse", "reset", "direction", "d"}
ProbeValues == {Null, <<"">>, <<"msg">>, <<"-">>}
ProbeUnknownKey == "verbose"

ProbeOptions ==
    [key : ProbeBoolKeys \cup {ProbeUnknownKey}, value : {Null}]
    \cup [key : ProbeStringKeys, value : ProbeValues]

ProbeArgs == UNION {[1..n -> ProbeOptions] : n \in 0..MaxArgs}

InitConfig ==
    /\ NoRun("parseArgs")
    /\ config = [help |-> FALSE, letItGo |-> FALSE, noCommit |-> FALSE,
                 cleanse |-> "", reset |-> ""]
    /\ probe \in [fn : {"config"}, argv : ProbeArgs,
                  parsedArgs : {ParsedNothing(createFlagAliases)},
                  direction : {""}, duplicates : {<<>>}]

\* config.ts 119-127
ParseArgs ==
    /\ pc = "parseArgs"
    /\ probe' = [probe EXCEPT !.parsedArgs = parseArgs(probe.argv)]
    /\ pc' = "defaults"
    /\ NoRunUnchanged

\* config.ts 158-166
ApplyDefaults ==
    /\ pc = "defaults"
    /\ probe' = [probe EXCEPT !.parsedArgs = PostProcessDefaults(probe.parsedArgs)]
    /\ pc' = "fallbacks"
    /\ NoRunUnchanged

\* config.ts 167-175
ApplyFallbacks ==
    /\ pc = "fallbacks"
    /\ probe' = [probe EXCEPT !.parsedArgs = PostProcessFallbacks(probe.parsedArgs)]
    /\ pc' = "currentConfig"
    /\ NoRunUnchanged

\* config.ts 184-192: currentConfig, of which mod.ts reads these flags.
CurrentConfig ==
    /\ pc = "currentConfig"
    /\ LET b == probe.parsedArgs.bools
           s == probe.parsedArgs.strings
           Text(v) == IF v = Null THEN "undefined" ELSE v[1]
       IN  /\ config' = [help |-> b["help"], letItGo |-> b["let-it-go"],
                         noCommit |-> b["no-commit"],
                         cleanse |-> Text(s["cleanse"]),
                         reset |-> Text(s["reset"])]
           /\ probe' = [probe EXCEPT !.direction = Text(s["direction"])]
    /\ pc' = "configured"
    /\ UNCHANGED <<tz, os, repo, repo0, dates, theHashBeforeCommits,
                   dateStrings, i, logArray, error, commandAvailability, calls,
                   attempts, hardReset>>

\* config_test.ts 30-35: the two tests, run once the module is imported.
CheckForDuplicates(prop) ==
    /\ pc = "configured"
    /\ prop = IF probe.duplicates = <<>> THEN "name" ELSE "alias"
    /\ Len(probe.duplicates) < 2
    /\ probe' = [probe EXCEPT !.duplicates = Append(@, checkForDuplicates(prop))]
    /\ UNCHANGED pc
    /\ NoRunUnchanged

NextConfig ==
    \/ ParseArgs
    \/ ApplyDefaults
    \/ ApplyFallbacks
    \/ CurrentConfig
    \/ \E prop \in {"name", "alias"} : CheckForDuplicates(prop)

SpecConfig == InitConfig /\ [][NextConfig]_vars

Spec == Init /\ [][Next]_vars

\* ------------------------------------------------------------ properties
\* What became of commit(dates[k]): its commit was created; or no commit was
\* made for the date, because one of its commands could not be run (commit()
\* rejected) or because git ended with a failure exit status (failed).
CreatedAt(k) == k \in 1..Len(attempts) /\ attempts[k].commit = "created"
RejectedAt(k) == k \in 1..Len(attempts) /\ attempts[k].commit = "rejected"
CommitFailedAt(k) == k \in 1..Len(attempts) /\ attempts[k].commit # "created"

\* The progress of the k-th date could not be written.
WriteRejectedAt(k) == k \in 1..Len(attempts) /\ attempts[k].write = "throw"

\* The commits the loop of processDateStrings created, in order: one for
\* every attempt that ended with a new commit.
RECURSIVE CommitsCreated(_, _)
CommitsCreated(as, ds) ==
    IF as = <<>> THEN <<>>
    ELSE (IF Head(as).commit = "created" THEN <<DatedCommit(Head(ds))>> ELSE <<>>)
             \o CommitsCreated(Tail(as), Tail(ds))

\* The year of the date on the calendar of the zone.
LocalYear(date) == CivilFromDays((date - tz) \div 1440).year

\* The resolved dates whose year is in the accepted range, in order.
InRange(d) == 1970 <= LocalYear(d) /\ LocalYear(d) < CurrentYear + 74
RangeValid == SelectSeq(dates, InRange)

\* processDates threw on a date out of the range (let-it-go unset).
RangeErrorRaised == \E m \in logArray : m.text = LogDateAborted

\* The saving of the current commit hash has taken place.
SnapshotTaken == pc \in {"processDates", "commit", "hardResetToCommit", "done"}

\* C1: without let-it-go, when the commit of some date failed and the hard
\* reset succeeded, the history at the end of the run is the history that
\* was there when the current commit was saved, before the first commit:
\* the commits the run created are gone.
C1_Rollback ==
    (/\ pc = "done"
     /\ ~config.letItGo
     /\ \E k \in 1..Len(attempts) : CommitFailedAt(k)
     /\ hardReset = "ok")
    => repo.history = theHashBeforeCommits.commits

\* C2: in a run whose dates passed the range check and in which no commit
\* failed, the commits of the dates are created one by one in the order of
\* the dates, each with the instant of its date as the author time git
\* records, after the commits that were there at the snapshot; once the
\* loop is over there is one for every range-valid date.
C2_OneCommitPerDateInOrder ==
    (/\ pc \in {"commit", "hardResetToCommit", "done"}
     /\ ~RangeErrorRaised
     /\ \A k \in 1..Len(attempts) : CreatedAt(k))
    => LET base == Len(theHashBeforeCommits.commits)
           n    == Len(attempts)
       IN  /\ n <= Len(RangeValid)
           /\ pc = "commit" => n = i
           /\ pc # "commit" => n = Len(RangeValid)
           /\ Len(repo.history) = base + n
           /\ SubSeq(repo.history, 1, base) = theHashBeforeCommits.commits
           /\ \A k \in 1..n :
                  GitAuthorTime(repo.history[base + k].date)
                      = [wrapped |-> 0, minute |-> RangeValid[k]]

\* C3: without let-it-go, a date whose commit failed is the last one
\* attempted: the loop is left and no later date is committed.
C3_NoCommitAfterFailure ==
    ~config.letItGo =>
        \A k \in 1..Len(attempts) :
            CommitFailedAt(k) => /\ k = Len(attempts)
                                 /\ pc \in {"hardResetToCommit", "done", "failed"}

\* C4: with let-it-go, a date whose commit failed is logged as skipped,
\* every later date is attempted in order, no hard reset takes place, the
\* run ends normally, and the commits that were created stay in the
\* history.
C4_LenientSkips ==
    (config.letItGo /\ attempts # <<>>) =>
        /\ \A k \in 1..Len(attempts) :
               CommitFailedAt(k) =>
                   DateMsg(LogCommitSkipped, dateStrings[k]) \in logArray
        /\ Len(attempts) = i
        /\ pc \in {"commit", "done"}
        /\ pc = "done" <=> i = Len(dateStrings)
        /\ hardReset = "none" /\ "hardResetToCommit" \notin calls
        /\ error = ""
        /\ repo.history = theHashBeforeCommits.commits
                              \o CommitsCreated(attempts, dateStrings)

\* C5: a commit whose external process ended with a failure exit status is a
\* failed commit: without let-it-go the loop is left and the run is rolled
\* back, with let-it-go the date is logged as skipped.
C5_ExitStatusIsCommitFailure ==
    \A k \in 1..Len(attempts) :
        attempts[k].commit = "failed" =>
            IF config.letItGo
            THEN DateMsg(LogCommitSkipped, dateStrings[k]) \in logArray
            ELSE /\ k = Len(attempts)
                 /\ pc \in {"hardResetToCommit", "done", "failed"}
                 /\ pc = "done" => hardReset # "none"

\* The errors of the checks made before the first commit.
TokenErrors == {ErrInvalidFormat, ErrInvalidTime, ErrRelativeFirst, ErrInvalidDirection}

\* A commit the run made before the dates (cleanse, INIT, reset): it is dated
\* at the far-future sentinel.
IsSentinelCommit(c) == c.date = futureNowString(tz)

\* C6: every error of the checks before the first commit (git unavailable,
\* repository not clean without cleanse, malformed token, relative token
\* first, invalid direction, date out of range without let-it-go) leaves
\* the repository as it was when the run started, and no hard reset is
\* made.
C6_NoMutationBeforePreflightError ==
    (\/ pc = "failed" /\ error \in {ErrNoGit, ErrNotClean} \cup TokenErrors
     \/ RangeErrorRaised)
    => /\ repo = repo0
       /\ "hardResetToCommit" \notin calls

\* C7: processDates accepts a date exactly when its year on the calendar of
\* the zone is at least 1970 and less than the current year plus 74: the
\* date it accepts is given to the loop, which attempts its commit and is
\* left by the catch only when the commit or the writing of the progress
\* was rejected without let-it-go; a date it refuses is dropped under
\* let-it-go and else stops the run, and no commit is attempted.
C7_AcceptedYears ==
    (probe.fn = "processDates" /\ pc # "processDates") =>
        IF 1970 <= probe.year /\ probe.year < CurrentYear + 74
        THEN /\ Len(dateStrings) = 1
             /\ InstantOfISO(dateStrings[1]) = dates[1]
             /\ \/ pc = "commit" /\ attempts = <<>>
                \/ /\ Len(attempts) = 1
                   /\ "commit" \in calls
                   /\ pc = IF (RejectedAt(1) \/ WriteRejectedAt(1))
                                   /\ ~config.letItGo
                           THEN "hardResetToCommit" ELSE "done"
        ELSE /\ dateStrings = <<>>
             /\ attempts = <<>>
             /\ "commit" \notin calls
             /\ pc = IF config.letItGo THEN "done" ELSE "hardResetToCommit"

\* A date in the last accepted year, on the last minute of the year in a
\* zone behind UTC, was accepted.
C7_Witness ==
    /\ probe.fn = "processDates"
    /\ probe.year = CurrentYear + 73
    /\ tz > 0
    /\ LocalYear(dates[1] + 1) = CurrentYear + 74
    /\ pc = "done"
    /\ Len(attempts) = 1 /\ ~RejectedAt(1) /\ ~WriteRejectedAt(1)

\* C8: the dates out of range are dealt with before the first commit.  With
\* let-it-go each is logged as dropped and the loop is given exactly the
\* dates in range, in their order, and what it creates follows the snapshot
\* in that order; without let-it-go no commit of any date is attempted.
C8_RangeBeforeCommits ==
    /\ (~config.letItGo /\ Len(RangeValid) < Len(dates)) =>
           /\ attempts = <<>>
           /\ "commit" \notin calls
           /\ pc # "commit"
           /\ dateStrings = <<>>
    /\ (config.letItGo /\ pc \in {"commit", "done"}) =>
           /\ \A k \in 1..Len(dates) :
                  ~InRange(dates[k]) =>
                      DateMsg(LogDateDropped, stringifyDate(dates[k], tz)) \in logArray
           /\ Len(dateStrings) = Len(RangeValid)
           /\ \A k \in 1..Len(dateStrings) :
                  InstantOfISO(dateStrings[k]) = RangeValid[k]
           /\ repo.history = theHashBeforeCommits.commits
                                 \o CommitsCreated(attempts, dateStrings)

\* With let-it-go, the second of three dates was out of range and the two
\* others were committed.
C8_Witness ==
    /\ config.letItGo
    /\ pc = "done"
    /\ Len(dates) = 3
    /\ InRange(dates[1]) /\ ~InRange(dates[2]) /\ InRange(dates[3])
    /\ Len(attempts) = 2 /\ CreatedAt(1) /\ CreatedAt(2)
    /\ Len(repo.history) = Len(theHashBeforeCommits.commits) + 2

\* C9: as long as git has not been found available, whether its check
\* answered a failure or could not be run, no function of L_git has been
\* called and the repository is untouched.
C9_NoCallWithoutGit ==
    ~commandAvailability.git =>
        /\ calls = {}
        /\ repo = repo0
        /\ pc \in {"start", "exited", "failed"}
        /\ pc = "failed" => error = ErrNoGit

\* Git was found missing and the run failed.
C9_Witness ==
    /\ pc = "failed"
    /\ error = ErrNoGit
    /\ ~commandAvailability.git
    /\ calls = {}

\* C10: when the repository is found not clean, with cleanse set the
\* changes are committed in exactly one commit dated at the far-future
\* sentinel, added after the commits that were there, which are kept as
\* they were, and the run goes on with a directory that holds no change any
\* more.  With cleanse unset the run fails and nothing more is called: no
\* commit, no snapshot, no reset, no hard reset.
C10_NotCleanHandling ==
    /\ "cleanRepository" \in calls =>
           /\ config.cleanse # ""
           /\ error # ErrNotClean
    /\ (pc = "getCommitCount" /\ "cleanRepository" \in calls) =>
           /\ Dirty(repo0)
           /\ repo.history =
                  Append(repo0.history,
                         Commit(config.cleanse, futureNowString(tz)))
           /\ IsClean(repo)
    /\ (pc = "failed" /\ error = ErrNotClean) =>
           /\ config.cleanse = ""
           /\ Dirty(repo0)
           /\ calls \subseteq {"isGitRepository", "initializeGitRepository",
                               "isRepositoryClean"}
           /\ repo.history = repo0.history
           /\ attempts = <<>>
           /\ hardReset = "none"

\* s is the beginning of t.
IsPrefix(s, t) == Len(s) <= Len(t) /\ SubSeq(t, 1, Len(s)) = s

\* C11: whenever the current commit hash has been saved, the repository
\* held at least one commit at that time, made before any commit of a date:
\* with no commit found, the INIT commit dated at the far-future sentinel was
\* created first.
C11_RootCommitBeforeApply ==
    SnapshotTaken =>
        /\ theHashBeforeCommits.resolved
        /\ Len(theHashBeforeCommits.commits) >= 1
        /\ "createInitialCommit" \in calls =>
               theHashBeforeCommits.commits = <<Commit("INIT", futureNowString(tz))>>

\* C12: with reset set, resetRepository leaves one commit dated at the
\* far-future sentinel in place of all the commits that were there, and it
\* holds the whole working tree, so that no change is left uncommitted; it
\* runs only with reset set.  Every other step but the hard reset only
\* appends to the history.
C12_ResetSquashesElseAppendOnly ==
    [][/\ pc = "resetRepository" => config.reset # ""
       /\ (pc = "resetRepository" /\ pc' = "prepareDates") =>
              /\ repo'.history = <<Commit(config.reset, futureNowString(tz))>>
              /\ IsClean(repo')
       /\ pc \notin {"resetRepository", "hardResetToCommit"} =>
              IsPrefix(repo.history, repo'.history)
      ]_vars

\* C13: when the hard reset of the rollback fails, the run fails with the
\* error of the hard reset and never logs that the hard reset was successful.
C13_RollbackFailureReported ==
    hardReset \in {"fail", "throw"} =>
        /\ pc = "failed"
        /\ error = ErrHardReset
        /\ Msg(LogHardResetSuccessful) \notin logArray

\* ------------------------------------- properties of the prepared dates
\* The dates were prepared on their own from probe.items and
\* probe.direction, and the closure has ended.
Prepared == probe.fn = "prepareDates" /\ pc # "prepareDates"

\* The direction is one the closure accepts.
ValidDirection == probe.direction \in {"+", "-"}

\* +1 or -1, as the direction says.
Sign == IF probe.direction = "+" THEN 1 ELSE 0 - 1

\* The tokens that are dates of the calendar, and the day numbers.
AbsoluteTokens == {TokenD, TokenE}
RelativeTokens == {Token0, Token3}

\* Local midnight of 1990-12-23 and of 1990-12-26.
MidnightD == DaysFromCivil(1990, 12, 23) * 1440 + tz
MidnightE == DaysFromCivil(1990, 12, 26) * 1440 + tz
MidnightOf(item) == IF item = TokenD THEN MidnightD ELSE MidnightE

\* The canonical form of an instant: one hour later, shifted by the zone's
\* offset.
Canonical(t) == t + 60 - tz

\* Every token is a date of the calendar or a day number, and the first is
\* a date.
WellFormedFromDate ==
    /\ probe.items # <<>>
    /\ probe.items[1] \in AbsoluteTokens
    /\ \A k \in 1..Len(probe.items) :
           probe.items[k] \in AbsoluteTokens \cup RelativeTokens

\* C14: a non-empty list of dates and day numbers that begins with a date
\* is resolved, in either direction, to one date per token.
C14_OneDatePerToken ==
    (Prepared /\ ValidDirection /\ WellFormedFromDate) =>
        /\ error = ""
        /\ pc \in {"getCurrentCommitHash", "exited"}
        /\ Len(dates) = Len(probe.items)

\* Four tokens, dates and day numbers mixed, gave four dates.
C14_Witness ==
    /\ Prepared
    /\ probe.direction = "-"
    /\ probe.items = <<TokenD, Token3, Token0, TokenE>>
    /\ Len(dates) = 4

\* C15: a day number as the first token, 0 included, in either direction,
\* stops the run with the error of the relative number used first: no date
\* is produced, nothing is committed, the repository is untouched.
C15_RelativeFirstFails ==
    (/\ Prepared /\ ValidDirection
     /\ probe.items # <<>>
     /\ probe.items[1] \in RelativeTokens)
    => /\ pc = "failed"
       /\ error = ErrRelativeFirst
       /\ dates = <<>>
       /\ attempts = <<>>
       /\ "commit" \notin calls
       /\ repo = repo0

\* The list began with 0 and the run failed.
C15_Witness ==
    /\ Prepared
    /\ probe.direction = "-"
    /\ Len(probe.items) >= 2
    /\ probe.items[1] = Token0
    /\ pc = "failed"
    /\ error = ErrRelativeFirst

\* C16: for a date D followed only by 0 and by D again, in either
\* direction, the k-th date (from 0) is the canonical form of D plus k
\* minutes.
C16_CollisionRule ==
    (/\ Prepared /\ ValidDirection
     /\ probe.items # <<>>
     /\ probe.items[1] = TokenD
     /\ \A k \in 1..Len(probe.items) : probe.items[k] \in {TokenD, Token0})
    => /\ error = ""
       /\ Len(dates) = Len(probe.items)
       /\ \A k \in 1..Len(dates) : dates[k] = Canonical(MidnightD + (k - 1))

\* [D, 0, D] gave D, D + 1 minute, D + 2 minutes.
C16_Witness ==
    /\ Prepared
    /\ probe.items = <<TokenD, Token0, TokenD>>
    /\ dates = <<Canonical(MidnightD), Canonical(MidnightD + 1),
                 Canonical(MidnightD + 2)>>

\* C17: a date followed only by the day number 3 gives the date and then,
\* for each 3, local midnight three more calendar days later with '+' and
\* three more days earlier with '-'; [1990-12-23, 3] gives 1990-12-26 with
\* '+' and 1990-12-20 with '-'.
C17_DirectionOfRelative ==
    (/\ Prepared /\ ValidDirection
     /\ probe.items # <<>>
     /\ probe.items[1] \in AbsoluteTokens
     /\ \A k \in 2..Len(probe.items) : probe.items[k] = Token3)
    => /\ error = ""
       /\ Len(dates) = Len(probe.items)
       /\ \A k \in 1..Len(dates) :
              dates[k] = Canonical(MidnightOf(probe.items[1])
                                       + Sign * 3 * (k - 1) * 1440)
       /\ (probe.items[1] = TokenD /\ Len(dates) >= 2) =>
              dates[2] = Canonical(DaysFromCivil(1990, 12,
                             IF probe.direction = "+" THEN 26 ELSE 20) * 1440 + tz)

\* [1990-12-23, 3] with '-' gave 1990-12-23 and 1990-12-20.
C17_Witness ==
    /\ Prepared
    /\ probe.direction = "-"
    /\ probe.items = <<TokenD, Token3>>
    /\ dates = <<Canonical(MidnightD),
                 Canonical(DaysFromCivil(1990, 12, 20) * 1440 + tz)>>

\* The token at k gave a date that later day numbers count from: a day
\* number other than 0, or a date that was given as it is.
IsAnchor(k) ==
    \/ probe.items[k] = Token3
    \/ /\ probe.items[k] \in AbsoluteTokens
       /\ dates[k] = Canonical(MidnightOf(probe.items[k]))

\* C18: in a list that is resolved, the date of a day number n other than 0
\* is the date of the latest earlier anchor plus n days in the direction, at
\* midnight with no minute added, whatever 0s and repeated dates lie between.
C18_RelativeFromDateOnly ==
    (Prepared /\ ValidDirection /\ error = "" /\ probe.items # <<>>) =>
        \A k \in 1..Len(probe.items) :
            probe.items[k] = Token3 =>
                \E j \in 1..(k - 1) :
                    /\ IsAnchor(j)
                    /\ \A m \in (j + 1)..(k - 1) : ~IsAnchor(m)
                    /\ dates[k] = dates[j] + Sign * 3 * 1440
                    /\ (dates[k] - Canonical(tz)) % 1440 = 0

\* [D, 0, 0, 3] with '+' ended at D + 3 days.
C18_Witness ==
    /\ Prepared
    /\ probe.direction = "+"
    /\ probe.items = <<TokenD, Token0, Token0, Token3>>
    /\ Len(dates) = 4
    /\ dates[4] = Canonical(MidnightE)

\* C19: a token that is neither a string of digits nor of the shape
\* YYYY-MM-DD, wherever it comes after tokens that were resolved, stops the
\* run with the error of the format: nothing is committed, not even for the
\* dates resolved from the tokens before it.
C19_MalformedTokenFails ==
    (Prepared /\ ValidDirection) =>
        \A k \in 1..Len(probe.items) :
            (/\ probe.items[k] = TokenPlus3
             /\ \A j \in 1..(k - 1) :
                    probe.items[j] \in AbsoluteTokens \cup RelativeTokens
             /\ k > 1 => probe.items[1] \in AbsoluteTokens)
            => /\ pc = "failed"
               /\ error = ErrInvalidFormat
               /\ Len(dates) = k - 1
               /\ attempts = <<>>
               /\ "commit" \notin calls
               /\ repo = repo0

\* +3 came third, after two tokens that had been resolved.
C19_Witness ==
    /\ Prepared
    /\ Len(probe.items) = 4
    /\ probe.items[1] = TokenD /\ probe.items[2] = Token3
    /\ probe.items[3] = TokenPlus3
    /\ pc = "failed"
    /\ error = ErrInvalidFormat
    /\ Len(dates) = 2

\* The variables of the closure after the first k tokens.
StateAfter(k) ==
    ResolveFrom(ResolverInit, SubSeq(probe.items, 1, k), 1,
                DirOf(probe.direction), tz)

\* C20: in a list that is resolved, after every token previousDate holds
\* the date of that token as it was before normalizeDate: the date given out
\* is its canonical form, and previousDate and previousDate_onlyDate stay on
\* local midnight plus the minutes added, never on a canonical time.
C20_StateNotNormalized ==
    (Prepared /\ ValidDirection /\ error = "" /\ probe.items # <<>>) =>
        \A k \in 1..Len(probe.items) :
            LET st == StateAfter(k) IN
            /\ st.previousDate # Null /\ st.previousDate_onlyDate # Null
            /\ dates[k] = Canonical(st.previousDate[1].time)
            /\ (st.previousDate_onlyDate[1].time - tz) % 1440 = 0
            /\ (st.previousDate[1].time - tz) % 1440 \in 0..(k - 1)

\* [D, D]: the second D was found equal to previousDate, which held D and
\* not its canonical form.
C20_Witness ==
    /\ Prepared
    /\ probe.items = <<TokenD, TokenD>>
    /\ StateAfter(1).previousDate = <<ValidDate(MidnightD)>>
    /\ dates = <<Canonical(MidnightD), Canonical(MidnightD + 1)>>

\* The text is 'MMm SSs' for the minutes m and the seconds s.
Renders(text, m, s) ==
    /\ Len(text) = 7
    /\ IsNumberString(SubSeq(text, 1, 2)) /\ parseInt(SubSeq(text, 1, 2)) = m
    /\ text[3] = "m" /\ text[4] = " "
    /\ IsNumberString(SubSeq(text, 5, 6)) /\ parseInt(SubSeq(text, 5, 6)) = s
    /\ text[7] = "s"

Formatted == probe.fn = "formatMilliseconds" /\ pc = "done"

\* C21: formatMilliseconds(ms) is 'MMm SSs' with 0 <= s < 60 and
\* 60 * m + s = floor(ms / 1000) + 1, both on two digits; 0 ms gives
\* '00m 01s' and 59000 ms gives '01m 00s'.
C21_RendersWholeDuration ==
    Formatted =>
        LET total == (probe.ms \div 1000) + 1 IN
        /\ Renders(probe.text, total \div 60, total % 60)
        /\ probe.ms = 0 =>
               probe.text = <<"0", "0", "m", " ", "0", "1", "s">>
        /\ probe.ms = 59000 =>
               probe.text = <<"0", "1", "m", " ", "0", "0", "s">>

\* The L_git functions that change the repository.
Mutators ==
    {"initializeGitRepository", "cleanRepository", "createInitialCommit",
     "resetRepository", "commit", "hardResetToCommit"}

\* C22 as stated: with no-commit none of initialize, cleanse commit,
\* bootstrap commit, squash, dated commit and hard reset is performed.
C22_NoCommitNoMutation ==
    config.noCommit => calls \cap Mutators = {} /\ repo = repo0

\* C22 amended: with no-commit the run exits once the tokens are resolved,
\* before the snapshot: the hash is never saved, no commit of a date is
\* attempted and no hard reset is made.  The history holds the commits it
\* started with and those of cleanse, INIT and reset, which are made before
\* the tokens are read whatever the option.
C22_NoCommitStopsBeforeSnapshot ==
    config.noCommit =>
        /\ calls \cap {"getCurrentCommitHash", "commit", "hardResetToCommit"} = {}
        /\ pc \notin {"getCurrentCommitHash", "processDates", "commit",
                      "hardResetToCommit", "done"}
        /\ ~theHashBeforeCommits.resolved
        /\ dateStrings = <<>> /\ attempts = <<>> /\ hardReset = "none"
        /\ \A k \in 1..Len(repo.history) :
               \/ IsSentinelCommit(repo.history[k])
               \/ k <= Len(repo0.history) /\ repo.history[k] = repo0.history[k]

\* A run with no-commit and reset resolved its tokens and exited, after the
\* history had been squashed.
C22_Witness ==
    /\ config.noCommit
    /\ pc = "exited"
    /\ dates # <<>>
    /\ "resetRepository" \in calls
    /\ repo.history # repo0.history

\* C23: at most one process is in flight at any moment, and it is the one
\* the program awaits: every command, the three of one commit, the writing
\* of the progress and the sleep included, starts when nothing is in
\* flight, and a run that has ended leaves nothing in flight.
C23_OneProcessInFlight ==
    probe.fn = "run" =>
        /\ Cardinality(probe.running) <= 1
        /\ probe.running = IF probe.phase = "await" /\ probe.op \notin SeqEnded
                           THEN {SeqProcess(probe)} ELSE {}

\* The git commit of the second date is in flight, alone.
C23_Witness ==
    /\ probe.fn = "run"
    /\ probe.i = 1
    /\ probe.running = {[op |-> "commit", k |-> 3, i |-> 1]}

AllFlags == Range(boolFlags) \cup Range(stringFlags)

\* C24: over boolFlags and stringFlags together no name and no alias occurs
\* twice: as many names as definitions, as many aliases as definitions with
\* an alias, and both tests of config_test.ts find no duplicate.
C24_NoDuplicateFlags ==
    probe.fn = "config" =>
        /\ Cardinality({f.name : f \in AllFlags}) = Len(boolFlags) + Len(stringFlags)
        /\ \A f \in AllFlags, g \in AllFlags :
               (f.alias # Null /\ f.alias = g.alias) => f.name = g.name
        /\ \A k \in 1..Len(probe.duplicates) :
               probe.duplicates[k] = [thrown |-> "", duplicates |-> {}]

\* Both tests have run on the seven definitions and their three aliases.
C24_Witness ==
    /\ probe.fn = "config"
    /\ pc = "configured"
    /\ Len(probe.duplicates) = 2
    /\ \A k \in 1..2 : probe.duplicates[k].thrown = ""
    /\ Cardinality(AllFlags) = 7
    /\ {f.alias[1] : f \in {g \in AllFlags : g.alias # Null}} = {"h", "n", "d"}

\* What the command line gave for the flag of this name and alias: Null
\* when no option names it, else the value of the last one that does, ''
\* for an option without a value.
Passed(flag) ==
    {k \in 1..Len(probe.argv) :
        probe.argv[k].key \in {flag.name} \cup Range(flag.alias)}

UserValue(flag) ==
    IF Passed(flag) = {} THEN Null
    ELSE LET last == CHOOSE k \in Passed(flag) : \A j \in Passed(flag) : j <= k
         IN  IF probe.argv[last].value = Null THEN <<"">>
             ELSE probe.argv[last].value

Configured == probe.fn = "config" /\ pc = "configured"

\* C25: after the post-processing a flag with a fallback is '' when absent,
\* its fallback when passed without a value, else the user's value; a flag
\* with a default is the default when absent or passed without a value,
\* else the user's value.  cleanse and reset are truthy exactly when
\* passed, direction is never empty.
C25_StringFlagPostProcessing ==
    Configured =>
        /\ \A flag \in Range(stringFlags) :
               LET user  == UserValue(flag)
                   value == probe.parsedArgs.strings[flag.name]
               IN  /\ flag.fallback # Null =>
                          value = IF user = Null THEN <<"">>
                                  ELSE IF user = <<"">> THEN flag.fallback
                                  ELSE user
                   /\ flag.default # Null =>
                          value = IF user = Null \/ user = <<"">>
                                  THEN flag.default
                                  ELSE user
        /\ config.cleanse # "" <=> \E k \in 1..Len(probe.argv) :
                                       probe.argv[k].key = "cleanse"
        /\ config.reset # "" <=> \E k \in 1..Len(probe.argv) :
                                     probe.argv[k].key = "reset"
        /\ probe.direction # ""

\* --cleanse -d=- : cleanse took its fallback, reset was absent and is '',
\* direction took the user's value.
C25_Witness ==
    /\ Configured
    /\ probe.argv = <<[key |-> "cleanse", value |-> Null],
                      [key |-> "d", value |-> <<"-">>]>>
    /\ config.cleanse = "CLEANSE"
    /\ config.reset = ""
    /\ probe.direction = "-"

\* C26: the dates of a list that is resolved are all different, whatever
\* their places in the list.
C26_AllInstantsDistinct ==
    (Prepared /\ error = "") =>
        \A j \in 1..Len(dates), k \in 1..Len(dates) :
            j # k => dates[j] # dates[k]

\* The apply phase threw: a date out of range, or a commit or the writing
\* of its progress rejected, without let-it-go.
ApplyThrew ==
    \/ RangeErrorRaised
    \/ /\ ~config.letItGo
       /\ RejectedAt(Len(attempts)) \/ WriteRejectedAt(Len(attempts))

\* The functions that change the repository before the dates are read.
PreflightMutators ==
    {"initializeGitRepository", "cleanRepository", "createInitialCommit",
     "resetRepository"}

\* C27: hardResetToCommit is called at most once, after getCurrentCommitHash
\* has returned and with the hash it returned, and only when the apply phase
\* threw.  The hash is saved after init, cleanse, INIT and reset: from then
\* on the history is the saved history followed only by commits of dates,
\* before and after the hard reset, so the reset takes none of the earlier
\* commits away.
C27_HardResetOnceAfterSnapshot ==
    /\ pc = "hardResetToCommit" =>
           /\ hardReset = "none" /\ "hardResetToCommit" \notin calls
           /\ "getCurrentCommitHash" \in calls
           /\ ApplyThrew
    /\ "hardResetToCommit" \in calls =>
           /\ hardReset # "none"
           /\ pc \in {"done", "failed"}
           /\ "getCurrentCommitHash" \in calls
           /\ ApplyThrew
    /\ (pc = "done" /\ ~ApplyThrew) =>
           hardReset = "none" /\ "hardResetToCommit" \notin calls
    /\ (hardReset = "ok" /\ theHashBeforeCommits.resolved) =>
           repo.history = theHashBeforeCommits.commits
    /\ (SnapshotTaken \/ hardReset # "none") =>
           /\ IsPrefix(theHashBeforeCommits.commits, repo.history)
           /\ \A k \in 1..Len(repo.history) :
                  k > Len(theHashBeforeCommits.commits) =>
                      repo.history[k].message = "<date>"
           /\ theHashBeforeCommits.resolved => repo.isRepo

\* In a directory that was not a repository, the run made the INIT commit,
\* created the commit of the first date, had the second rejected and was
\* reset: the INIT commit is still there, alone.
C27_Witness ==
    /\ pc = "done"
    /\ hardReset = "ok"
    /\ ~repo0.isRepo
    /\ PreflightMutators \cap calls = {"initializeGitRepository", "createInitialCommit"}
    /\ Len(attempts) = 2 /\ CreatedAt(1) /\ RejectedAt(2)
    /\ repo.history = <<Commit("INIT", futureNowString(tz))>>
    /\ repo.isRepo

\* The minutes from previousDate_onlyDate to previousDate after k tokens.
MinutesAdded(k) ==
    StateAfter(k).previousDate[1].time - StateAfter(k).previousDate_onlyDate[1].time

\* The k-th token is a date equal to previousDate or to
\* previousDate_onlyDate as the tokens before it left them.
Collides(k) ==
    /\ k > 1
    /\ probe.items[k] \in AbsoluteTokens
    /\ MidnightOf(probe.items[k]) \in
           {StateAfter(k - 1).previousDate[1].time,
            StateAfter(k - 1).previousDate_onlyDate[1].time}

\* C28: after every token that is resolved, previousDate and
\* previousDate_onlyDate are both set and previousDate is
\* previousDate_onlyDate plus k minutes, k >= 0: k is 0 after a date that
\* collides with neither and after a day number other than 0, and one more
\* than before, previousDate_onlyDate unchanged, after a 0 and after a date
\* that collides.  Neither of the two 'impossible case' errors is thrown.
C28_ResolverStateInvariant ==
    (Prepared /\ ValidDirection) =>
        /\ error \notin {ErrImpossibleOnlyDate, ErrImpossibleFullTime}
        /\ \A k \in 1..Len(probe.items) :
               StateAfter(k).error = "" =>
                   /\ StateAfter(k).previousDate # Null
                   /\ StateAfter(k).previousDate_onlyDate # Null
                   /\ MinutesAdded(k) >= 0
                   /\ IF probe.items[k] = Token0 \/ Collides(k)
                      THEN /\ MinutesAdded(k) = MinutesAdded(k - 1) + 1
                           /\ StateAfter(k).previousDate_onlyDate =
                                  StateAfter(k - 1).previousDate_onlyDate
                      ELSE MinutesAdded(k) = 0

\* [D, 0, D, 3]: 0, 1 and 2 minutes added on D, then none on the date three
\* days away.
C28_Witness ==
    /\ Prepared
    /\ error = ""
    /\ probe.items = <<TokenD, Token0, TokenD, Token3>>
    /\ MinutesAdded(1) = 0 /\ MinutesAdded(2) = 1 /\ MinutesAdded(3) = 2
    /\ StateAfter(3).previousDate_onlyDate = <<ValidDate(MidnightD)>>
    /\ MinutesAdded(4) = 0

=============================================================================
